---- MODULE Spec2Model ----
(***************************************************************************)
(* Peer connection lifecycle and dual-path message delivery of the         *)
(* webrtc-msg messenger (enhanced variant: enhanced-app.js,                *)
(* enhanced-signaling.js, message-manager.js, webrtc.js,                   *)
(* enhanced-crypto.js).                                                    *)
(*                                                                         *)
(* The program is single-threaded and callback driven.  Every action below *)
(* is one run of a handler from the event that starts it up to its next    *)
(* `await`, or the resumption of a suspended handler from one `await` up   *)
(* to the next.  A suspended handler is an element of `tasks`.             *)
(*                                                                         *)
(* Three specifications share the variables:                               *)
(*   SpecMsg  - MessageManager / WebRTCSecrets / mailbox listener          *)
(*   SpecRtc  - WebRTCManager and the app's signaling callback             *)
(*   SpecSig  - EnhancedSignalingManager handshake listeners               *)
(***************************************************************************)
EXTENDS Integers, Sequences, FiniteSets, TLC

\* ---------------------------------------------------------------- bounds
MaxMsgs == 1        \* chat messages generated in one behaviour
MaxSecrets == 1     \* secret messages generated in one behaviour
MaxTicks == 1       \* clock readings of 1 ms explored around each instant
MaxInputs == 3      \* handshake inputs (offers, answers, candidates) delivered
MaxSessions == 1    \* peer connections created in one behaviour
MaxRecords == 2     \* handshake records written to the store
MaxDeliveries == 3  \* listener events fired by the store
MaxStale == 1       \* times the clock runs on by a whole liveness window

\* ------------------------------------------------------------- constants
\* 24 * 60 * 60 * 1000 ms: expiry of a stored chat record
MESSAGE_TTL == 86400000

\* 2 * 60 * 1000 ms: a participant not seen for this long is not active
ACTIVE_TIMEOUT == 120000
\* participantCheck.count >= 3 refuses the join
MAX_PARTICIPANTS == 3

Peers == {"X", "Y"}             \* session ids of the participants
\* session ids of the pages that may join the room
Joiners == Peers \cup {"Z", "W"}
NoPeer == "none"                \* null session id
Other(p) == CHOOSE q \in Peers : q # p

MsgIds == {"msg"} \X (1..MaxMsgs)           \* msg_<timestamp>_<random>
SecretIds == {"secret"} \X (1..MaxSecrets)  \* secret_<timestamp>_<random>
AllIds == MsgIds \cup SecretIds

\* Date.now() values the clock may show: an instant, a few ms after it, and
\* the same one TTL later.
MaxClock == MESSAGE_TTL + MaxTicks

VARIABLES
    now,                \* Date.now()
    mailbox,            \* store: encrypted_messages/{roomId}/{id}
    chan,               \* chan[p]: payloads in flight on the data channel to p
    dataChannel,        \* webrtc.dataChannel readyState per peer ("none" = null)
    isWebRTCConnected,  \* MessageManager.isWebRTCConnected
    deliveredMessages,  \* MessageManager.deliveredMessages
    processedSignals,   \* EnhancedSignalingManager.processedSignals
    secretMessageIds,   \* WebRTCSecrets.secretMessageIds
    secretTimers,       \* pending 60 s timers of handleWebRTCSecret
    tasks,              \* suspended async handlers
    loadQ,              \* loadOfflineMessages: stage and remaining batch
    nextMsg,            \* message ids generated so far
    nextSecret,         \* secret ids generated so far
    sendLog,            \* per chat id: what sendMessage did and returned
    secretLog,          \* outcomes of sendWebRTCSecret calls
    ui,                 \* ui[p][id]: invocations of the UI callback for id
    uiErr               \* ids surfaced to the UI as a decrypt placeholder

msgVars == <<now, mailbox, chan, dataChannel, isWebRTCConnected,
             deliveredMessages, processedSignals, secretMessageIds,
             secretTimers, tasks, loadQ, nextMsg, nextSecret, sendLog,
             secretLog, ui, uiErr>>

VARIABLES
    peerConnection,     \* WebRTCManager.peerConnection per peer ("null" or "live")
    signalingState,     \* peerConnection.signalingState ("closed" without a session)
    remoteDescription,  \* peerConnection.remoteDescription (NoDesc = null)
    iceCandidateBuffer, \* WebRTCManager.iceCandidateBuffer
    sessionLog,         \* what the session was given, in order: descriptions
                        \* applied and candidates handed to addIceCandidate
    rtcTasks,           \* suspended createOffer / createAnswer / handleAnswer calls
    connectionStatus,   \* the status the app shows (updateConnectionStatus)
    statusTimers,       \* pending 5 s timers that reset the status to 'ready'
    lastCall,           \* the latest call of the handshake callback and how it returned
    nextInput,          \* handshake inputs handed to the app so far
    sessions            \* peer connections created so far

rtcVars == <<peerConnection, signalingState, remoteDescription,
             iceCandidateBuffer, sessionLog, rtcTasks, connectionStatus,
             statusTimers, lastCall, nextInput, sessions>>

VARIABLES
    signals,            \* store: webrtc_signaling/{roomId}/{offers,answers,candidates}
    sessionId,          \* EnhancedSignalingManager.sessionId (NoPeer = null)
    listening,          \* the coordinator's store listeners are attached
    deliveries,         \* listener events the store has fired so far
    forwards            \* per record: calls of onSignalingMessage since the last join

sigVars == <<signals, sessionId, listening, deliveries, forwards>>

VARIABLES
    roomExists,         \* store: rooms/{roomId} holds a value
    participants,       \* store: rooms/{roomId}/participants/{sessionId}
    roomTask,           \* per page: where its joinRoom / leaveRoom call stands
    inactivity          \* per page: where its checkForInactiveRoomCleanup stands

roomVars == <<roomExists, participants, roomTask, inactivity>>

VARIABLES
    iceConnectionState, \* peerConnection.iceConnectionState ("new" without a session:
                        \* the state the next one starts in)
    iceTimeoutId,       \* the pending timer of WebRTCManager.iceTimeoutId ("none",
                        \* or the state whose handler armed it)
    localStream,        \* WebRTCManager.localStream ("null" or "live")
    closeLog,           \* what the close() calls so far found (history)
    restartCall         \* what the session's last connectivity handler or timer
                        \* called restartIce() for ("none": it made no call)

iceVars == <<iceConnectionState, iceTimeoutId, localStream, closeLog, restartCall>>

\* the session state apart from the status shown
rtcButStatus == <<peerConnection, signalingState, remoteDescription,
                  iceCandidateBuffer, sessionLog, rtcTasks, statusTimers,
                  lastCall, nextInput, sessions>>

vars == <<msgVars, rtcVars, sigVars, roomVars, iceVars>>

\* ------------------------------------------------------------ data shapes
NoTtl == 0 - 1      \* a payload that carries no ttl field (channel payload)

\* crypto.encryptMessage: ciphertext under the room key ("enc").  "bad" is a
\* payload the room key does not decrypt.
Payload(id, type, sender, ts) ==
    [id |-> id, type |-> type, sender |-> sender, data |-> "enc",
     timestamp |-> ts, ttl |-> NoTtl]

\* crypto.decryptMessage: succeeds exactly on ciphertext of the room key
Decrypts(msg) == msg.data = "enc"

HasRecord(id) == \E r \in mailbox : r.id = id
RecordOf(id) == CHOOSE r \in mailbox : r.id = id

\* firebaseRefs.set(ref(encrypted_messages/room/id), value): one record per key
StoreSet(mb, rec) == {r \in mb : r.id # rec.id} \cup {rec}
\* firebaseRefs.remove(ref(encrypted_messages/room/id))
StoreRemove(mb, id) == {r \in mb : r.id # id}

Task(p, op, msg, src, par) ==
    [p |-> p, op |-> op, msg |-> msg, src |-> src, par |-> par]

NoLog == [sender |-> NoPeer, direct |-> "none", issuedAt |-> NoTtl,
          ttl |-> NoTtl, store |-> "none", result |-> "none"]

\* The participant that created the room (app.joinRoom: isInitiator) and
\* the one that joined it as responder.
Initiator == "X"

\* ===================================================================
\* MessageManager (message-manager.js)
\* ===================================================================

\* handleIncomingMessage up to `await this.crypto.decryptMessage`:
\* a duplicate id or an own message returns, otherwise the call is
\* suspended in the decryption.
HimStart(ts, delivered, p, msg, src, par) ==
    IF msg.id \in delivered[p] \/ msg.sender = p
    THEN ts
    ELSE ts \cup {Task(p, "him", msg, src, par)}

\* Whether handleIncomingMessage returns before its first await
HimSkips(delivered, p, msg) == msg.id \in delivered[p] \/ msg.sender = p

\* The `for (const message of messages) await handleIncomingMessage(...)`
\* loop of loadOfflineMessages, run until a call suspends: the messages
\* whose call returns at once are passed over.
RECURSIVE LoadRest(_, _, _)
LoadRest(delivered, p, q) ==
    IF q = <<>> THEN q
    ELSE IF HimSkips(delivered, p, Head(q)) THEN LoadRest(delivered, p, Tail(q))
    ELSE q

\* the text handed to sendMessage, and crypto.encryptMessage (AES-GCM under
\* the room key): the ciphertext, which is what the payload is built from
Plaintext == "plain"
EncryptMessage_Identity(text) == text
EncryptMessage(text) == "enc"

\* sendMessage, from the call to `await this.crypto.encryptMessage`
SendMessage(p) ==
    /\ nextMsg < MaxMsgs
    /\ nextMsg' = nextMsg + 1
    /\ LET id == <<"msg", nextMsg + 1>> IN
       /\ tasks' = tasks \cup
            {Task(p, "send_encrypt",
                  [Payload(id, "encrypted_chat", p, 0) EXCEPT !.data = Plaintext],
                  "ui", "none")}
       /\ sendLog' = [sendLog EXCEPT ![id] =
            [NoLog EXCEPT !.sender = p, !.result = "pending"]]
    /\ UNCHANGED <<now, mailbox, chan, dataChannel, isWebRTCConnected,
                   deliveredMessages, processedSignals, secretMessageIds,
                   secretTimers, loadQ, nextSecret, secretLog, ui, uiErr>>

\* storeOfflineMessage: ttl: Date.now() + (24 * 60 * 60 * 1000)
StoreTtl_NoClock(at) == MESSAGE_TTL
StoreTtl(at) == at + MESSAGE_TTL

\* sendMessage's test before the direct attempt:
\* this.isWebRTCConnected && dataChannelReady
DirectReady_ChannelOnly(p) == dataChannel[p] = "open"
DirectReady(p) == isWebRTCConnected[p] /\ dataChannel[p] = "open"

\* webrtc.sendMessage (webrtc.js): true when the channel is open and
\* dataChannel.send does not throw
WebRTCSend_AnyState(p, sendOk) == sendOk
WebRTCSend(p, sendOk) == dataChannel[p] = "open" /\ sendOk

\* sendMessage resumed after encryption: the direct attempt, then
\* storeOfflineMessage issues the store write
SendEncrypted(t, sendOk) ==
    /\ t \in tasks /\ t.op = "send_encrypt"
    /\ LET p == t.p
           msg == [t.msg EXCEPT !.timestamp = now, !.data = EncryptMessage(@)]
           tryDirect == DirectReady(p)
           sent == tryDirect /\ WebRTCSend(p, sendOk)
           rec == [msg EXCEPT !.type = "stored", !.ttl = StoreTtl(now)]
       IN
       /\ tryDirect \/ sendOk      \* sendOk is read only when a send is tried
       /\ chan' = IF sent THEN [chan EXCEPT ![Other(p)] = Append(@, msg)] ELSE chan
       /\ tasks' = (tasks \ {t}) \cup {Task(p, "send_store", rec, "ui", "none")}
       /\ sendLog' = [sendLog EXCEPT ![msg.id] =
            [@ EXCEPT !.direct = IF ~tryDirect THEN "skipped"
                                 ELSE IF sent THEN "sent" ELSE "failed",
                      !.issuedAt = now, !.ttl = rec.ttl, !.store = "pending"]]
    /\ UNCHANGED <<now, mailbox, dataChannel, isWebRTCConnected,
                   deliveredMessages, processedSignals, secretMessageIds,
                   secretTimers, loadQ, nextMsg, nextSecret, secretLog, ui, uiErr>>

\* What sendMessage returns once the store write has settled
SendResult(direct, accepted) == IF accepted THEN "true" ELSE "false"

\* sendMessage resumed after `await this.storeOfflineMessage`: the store
\* accepted the write, or rejected it and the catch block runs
SendStored(t, accepted) ==
    /\ t \in tasks /\ t.op = "send_store"
    /\ mailbox' = IF accepted THEN StoreSet(mailbox, t.msg) ELSE mailbox
    /\ tasks' = tasks \ {t}
    /\ sendLog' = [sendLog EXCEPT ![t.msg.id] =
            [@ EXCEPT !.store = IF accepted THEN "ok" ELSE "fail",
                      !.result = SendResult(sendLog[t.msg.id].direct, accepted)]]
    /\ UNCHANGED <<now, chan, dataChannel, isWebRTCConnected,
                   deliveredMessages, processedSignals, secretMessageIds,
                   secretTimers, loadQ, nextMsg, nextSecret, secretLog, ui, uiErr>>

\* The mailbox child-added listener of setupEncryptedMessageListener
\* (enhanced-signaling.js) for the record stored under `id`, and the
\* callback MessageManager.initialize installs: a processed, expired or own
\* record returns; otherwise the id is marked processed and
\* handleIncomingMessage(record, 'firebase') runs to its first await.
\* The store may deliver the event for a record any number of times.
ListenerSkips(p, rec) ==
    \/ rec.id \in processedSignals[p]
    \/ rec.ttl < now
    \/ rec.sender = p

ListenerDeliver(p, id) ==
    /\ HasRecord(id)
    /\ LET rec == RecordOf(id) IN
       /\ ~ListenerSkips(p, rec)
       /\ processedSignals' = [processedSignals EXCEPT ![p] = @ \cup {id}]
       /\ tasks' = HimStart(tasks, deliveredMessages, p, rec, "firebase", "listener")
    /\ UNCHANGED <<now, mailbox, chan, dataChannel, isWebRTCConnected,
                   deliveredMessages, secretMessageIds, secretTimers, loadQ,
                   nextMsg, nextSecret, sendLog, secretLog, ui, uiErr>>

\* `if (source === 'firebase') await this.markMessageAsDelivered(id)`, which
\* is reached only when the decryption did not throw
DeletesRecord_AnySource(ok, src) == ok
DeletesRecord(ok, src) == ok /\ src = "firebase"

\* handleIncomingMessage's try/catch: an exception of the call does not
\* reach the loop of loadOfflineMessages, whose remaining batch is kept
CaughtRest_Thrown(ok, q) == IF ok THEN q ELSE <<>>
CaughtRest(ok, q) == q

\* handleIncomingMessage resumed after the decryption.  Decrypted: the id
\* joins deliveredMessages, the UI callback runs, and a message that came
\* from the store is removed from it (markMessageAsDelivered).  Not
\* decrypted: the catch block logs.  A call made by loadOfflineMessages
\* that ends without a further await lets the loop go on at once.
HimFinish(t) ==
    /\ t \in tasks /\ t.op = "him"
    /\ LET p == t.p
           id == t.msg.id
           ok == Decrypts(t.msg)
           delivered == IF ok THEN [deliveredMessages EXCEPT ![p] = @ \cup {id}]
                        ELSE deliveredMessages
           awaitsRemove == DeletesRecord(ok, t.src)
           rest == IF t.par = "load" /\ ~awaitsRemove
                   THEN LoadRest(delivered, p, CaughtRest(ok, loadQ[p].queue))
                   ELSE loadQ[p].queue
           goesOn == t.par = "load" /\ ~awaitsRemove /\ rest # <<>>
       IN
       /\ deliveredMessages' = delivered
       /\ ui' = IF ok THEN [ui EXCEPT ![p][id] = @ + 1] ELSE ui
       /\ mailbox' = IF awaitsRemove THEN StoreRemove(mailbox, id) ELSE mailbox
       /\ tasks' = (tasks \ {t}) \cup
            (IF goesOn THEN {Task(p, "him", Head(rest), "firebase", "load")} ELSE {})
       /\ loadQ' = IF t.par # "load" THEN loadQ
                   ELSE IF awaitsRemove
                        THEN [loadQ EXCEPT ![p].stage = "resume"]
                   ELSE IF goesOn
                        THEN [loadQ EXCEPT ![p].queue = Tail(rest)]
                   ELSE [loadQ EXCEPT ![p] = [stage |-> "done", queue |-> <<>>]]
    /\ UNCHANGED <<now, chan, dataChannel, isWebRTCConnected, processedSignals,
                   secretMessageIds, secretTimers, nextMsg, nextSecret,
                   sendLog, secretLog, uiErr>>

\* loadOfflineMessages, from the call to `await firebaseRefs.get`.  The app
\* calls it once, when it joined as responder (enhanced-app.js joinRoom).
LoadOfflineMessages(p) ==
    /\ p # Initiator
    /\ loadQ[p].stage = "idle"
    /\ loadQ' = [loadQ EXCEPT ![p].stage = "get"]
    /\ UNCHANGED <<now, mailbox, chan, dataChannel, isWebRTCConnected,
                   deliveredMessages, processedSignals, secretMessageIds,
                   secretTimers, tasks, nextMsg, nextSecret, sendLog,
                   secretLog, ui, uiErr>>

\* snapshot.forEach keeps the records that are neither expired nor own
\* (`delivered` is never set to true by any writer)
LoadKeeps_NoExpiry(p, rec) == rec.sender # p
LoadKeeps(p, rec) == ~(rec.ttl < now) /\ rec.sender # p

\* messages.sort((a, b) => a.timestamp - b.timestamp) of the snapshot, which
\* snapshot.forEach lists in key order; the sort is stable
RECURSIVE SortByTimestamp(_)
SortByTimestamp(S) ==
    IF S = {} THEN <<>>
    ELSE LET m == CHOOSE x \in S : \A y \in S :
                    \/ x.timestamp < y.timestamp
                    \/ (x.timestamp = y.timestamp /\ x.id[2] <= y.id[2])
         IN <<m>> \o SortByTimestamp(S \ {m})

\* Starts the loop of loadOfflineMessages on batch q, or goes on with it
LoadLoop(p, q) ==
    LET rest == LoadRest(deliveredMessages, p, q) IN
    IF rest = <<>>
    THEN /\ loadQ' = [loadQ EXCEPT ![p] = [stage |-> "done", queue |-> <<>>]]
         /\ tasks' = tasks
    ELSE /\ loadQ' = [loadQ EXCEPT ![p] = [stage |-> "loop", queue |-> Tail(rest)]]
         /\ tasks' = tasks \cup {Task(p, "him", Head(rest), "firebase", "load")}

\* loadOfflineMessages resumed with the snapshot of the mailbox
LoadSnapshot(p) ==
    /\ loadQ[p].stage = "get"
    /\ LoadLoop(p, SortByTimestamp({r \in mailbox : LoadKeeps(p, r)}))
    /\ UNCHANGED <<now, mailbox, chan, dataChannel, isWebRTCConnected,
                   deliveredMessages, processedSignals, secretMessageIds,
                   secretTimers, nextMsg, nextSecret, sendLog, secretLog,
                   ui, uiErr>>

\* loadOfflineMessages resumed after the `await firebaseRefs.remove` of the
\* message it has just surfaced
LoadNext(p) ==
    /\ loadQ[p].stage = "resume"
    /\ LoadLoop(p, loadQ[p].queue)
    /\ UNCHANGED <<now, mailbox, chan, dataChannel, isWebRTCConnected,
                   deliveredMessages, processedSignals, secretMessageIds,
                   secretTimers, nextMsg, nextSecret, sendLog, secretLog,
                   ui, uiErr>>

\* cleanupExpiredMessages (the app's 5 min interval), from the call to
\* `await firebaseRefs.get`
NoPayload == Payload(<<"msg", 0>>, "none", NoPeer, 0)

CleanupExpiredMessages(p) ==
    /\ ~\E t \in tasks : t.p = p /\ t.src = "cleanup"
    /\ tasks' = tasks \cup {Task(p, "cleanup_get", NoPayload, "cleanup", "none")}
    /\ UNCHANGED <<now, mailbox, chan, dataChannel, isWebRTCConnected,
                   deliveredMessages, processedSignals, secretMessageIds,
                   secretTimers, loadQ, nextMsg, nextSecret, sendLog,
                   secretLog, ui, uiErr>>

\* `if (messageData.ttl < now)` of the sweep
CleanupDeletes_Inclusive(rec, at) == rec.ttl <= at
CleanupDeletes_All(rec, at) == TRUE
CleanupDeletes(rec, at) == rec.ttl < at

\* cleanupExpiredMessages resumed with the snapshot: a remove is issued for
\* every expired record and the removes are awaited together
CleanupSnapshot(t) ==
    /\ t \in tasks /\ t.op = "cleanup_get"
    /\ tasks' = (tasks \ {t}) \cup
         {Task(t.p, "cleanup_remove", r, "cleanup", "none") :
            r \in {x \in mailbox : CleanupDeletes(x, now)}}
    /\ UNCHANGED <<now, mailbox, chan, dataChannel, isWebRTCConnected,
                   deliveredMessages, processedSignals, secretMessageIds,
                   secretTimers, loadQ, nextMsg, nextSecret, sendLog,
                   secretLog, ui, uiErr>>

\* one remove of the sweep settles: the store deleted the record or
\* rejected the remove
CleanupRemoved(t, accepted) ==
    /\ t \in tasks /\ t.op = "cleanup_remove"
    /\ mailbox' = IF accepted THEN StoreRemove(mailbox, t.msg.id) ELSE mailbox
    /\ tasks' = tasks \ {t}
    /\ UNCHANGED <<now, chan, dataChannel, isWebRTCConnected,
                   deliveredMessages, processedSignals, secretMessageIds,
                   secretTimers, loadQ, nextMsg, nextSecret, sendLog,
                   secretLog, ui, uiErr>>

\* A chat payload for p that the room key does not decrypt (corrupted, or
\* encrypted under another passphrase), in the mailbox or on the channel
UndecryptableChat(p, path) ==
    /\ nextMsg < MaxMsgs
    /\ nextMsg' = nextMsg + 1
    /\ LET msg == [Payload(<<"msg", nextMsg + 1>>, "encrypted_chat", Other(p), now)
                     EXCEPT !.data = "bad"]
       IN IF path = "store"
          THEN /\ mailbox' = StoreSet(mailbox,
                     [msg EXCEPT !.type = "stored", !.ttl = StoreTtl(now)])
               /\ chan' = chan
          ELSE /\ dataChannel[p] = "open"
               /\ chan' = [chan EXCEPT ![p] = Append(@, msg)]
               /\ mailbox' = mailbox
    /\ UNCHANGED <<now, dataChannel, isWebRTCConnected, deliveredMessages,
                   processedSignals, secretMessageIds, secretTimers, tasks,
                   loadQ, nextSecret, sendLog, secretLog, ui, uiErr>>

\* the id of a chat payload that was not encrypted under the room key
ForeignId == <<"msg", 0>>

\* a foreign payload is in the mailbox, on the channel or being handled
ForeignAround ==
    \/ HasRecord(ForeignId)
    \/ \E q \in Peers : \E i \in 1..Len(chan[q]) : chan[q][i].id = ForeignId
    \/ \E t \in tasks : t.msg.id = ForeignId

\* One chat payload for p that the room key does not decrypt reaches the
\* mailbox or the channel ahead of the room's own messages
ForeignChat(p, path) ==
    /\ ~ForeignAround
    /\ LET msg == [Payload(ForeignId, "encrypted_chat", Other(p), now)
                     EXCEPT !.data = "bad"]
       IN IF path = "store"
          THEN /\ mailbox' = StoreSet(mailbox,
                     [msg EXCEPT !.type = "stored", !.ttl = StoreTtl(now)])
               /\ chan' = chan
          ELSE /\ dataChannel[p] = "open"
               /\ chan' = [chan EXCEPT ![p] = Append(@, msg)]
               /\ mailbox' = mailbox
    /\ UNCHANGED <<now, dataChannel, isWebRTCConnected, deliveredMessages,
                   processedSignals, secretMessageIds, secretTimers, tasks,
                   loadQ, nextMsg, nextSecret, sendLog, secretLog, ui, uiErr>>

\* ===================================================================
\* WebRTCSecrets (enhanced-crypto.js)
\* ===================================================================

\* sendWebRTCSecret's test of the channel before anything else
SecretChannelReady_NotClosed(p) == dataChannel[p] # "closed"
SecretChannelReady(p) == dataChannel[p] = "open"

\* sendWebRTCSecret, from the call to `await this.crypto.encryptMessage`;
\* with no open channel it throws at once
SendWebRTCSecret(p) ==
    /\ nextSecret < MaxSecrets
    /\ IF ~SecretChannelReady(p)
       THEN /\ secretLog' = secretLog \cup
                  {[p |-> p, id |-> <<"secret", 0>>, res |-> "not_ready"]}
            /\ UNCHANGED <<tasks, nextSecret>>
       ELSE /\ nextSecret' = nextSecret + 1
            /\ tasks' = tasks \cup
                  {Task(p, "secret_encrypt",
                        Payload(<<"secret", nextSecret + 1>>, "webrtc_secret", p, 0),
                        "ui", "none")}
            /\ UNCHANGED secretLog
    /\ UNCHANGED <<now, mailbox, chan, dataChannel, isWebRTCConnected,
                   deliveredMessages, processedSignals, secretMessageIds,
                   secretTimers, loadQ, nextMsg, sendLog, ui, uiErr>>

\* What sendWebRTCSecret does to the mailbox when webrtc.sendMessage
\* returned false: it throws, and nothing is stored
SecretFallback_Store(mb, msg, sent) ==
    IF sent THEN mb ELSE StoreSet(mb, [msg EXCEPT !.ttl = StoreTtl(now)])
SecretFallback(mb, msg, sent) == mb

\* sendWebRTCSecret resumed after encryption: webrtc.sendMessage, and an
\* error thrown when it returns false
SecretEncrypted(t, sendOk) ==
    /\ t \in tasks /\ t.op = "secret_encrypt"
    /\ LET p == t.p
           msg == [t.msg EXCEPT !.timestamp = now]
           sent == WebRTCSend(p, sendOk)
       IN
       /\ dataChannel[p] = "open" \/ sendOk
       /\ chan' = IF sent THEN [chan EXCEPT ![Other(p)] = Append(@, msg)] ELSE chan
       /\ secretLog' = secretLog \cup
            {[p |-> p, id |-> msg.id, res |-> IF sent THEN "sent" ELSE "send_failed"]}
       /\ mailbox' = SecretFallback(mailbox, msg, sent)
       /\ tasks' = tasks \ {t}
    /\ UNCHANGED <<now, dataChannel, isWebRTCConnected,
                   deliveredMessages, processedSignals, secretMessageIds,
                   secretTimers, loadQ, nextMsg, nextSecret, sendLog, ui, uiErr>>

\* handleWebRTCSecret up to `await this.crypto.decryptMessage`
SecretStart(ts, p, msg) ==
    IF msg.id \in secretMessageIds[p] \/ msg.sender = p
    THEN ts
    ELSE ts \cup {Task(p, "secret", msg, "webrtc", "none")}

SecretIdsAfter(p, msg) ==
    IF msg.id \in secretMessageIds[p] \/ msg.sender = p
    THEN secretMessageIds
    ELSE [secretMessageIds EXCEPT ![p] = @ \cup {msg.id}]

\* handleWebRTCSecret resumed after the decryption (the alias lookup that
\* follows only reads the store).  Decrypted: the UI callback runs and the
\* 60 s timer that forgets the id is set.  Not decrypted: the catch block
\* surfaces the placeholder.
SecretFinish(t) ==
    /\ t \in tasks /\ t.op = "secret"
    /\ LET p == t.p
           id == t.msg.id
           ok == Decrypts(t.msg)
       IN
       /\ ui' = [ui EXCEPT ![p][id] = @ + 1]
       /\ uiErr' = IF ok THEN uiErr ELSE [uiErr EXCEPT ![p] = @ \cup {id}]
       /\ secretTimers' = IF ok THEN [secretTimers EXCEPT ![p] = @ \cup {id}]
                          ELSE secretTimers
    /\ tasks' = tasks \ {t}
    /\ UNCHANGED <<now, mailbox, chan, dataChannel, isWebRTCConnected,
                   deliveredMessages, processedSignals, secretMessageIds,
                   loadQ, nextMsg, nextSecret, sendLog, secretLog>>

\* The 60 s timer of handleWebRTCSecret fires
SecretExpire(p, id) ==
    /\ id \in secretTimers[p]
    /\ secretTimers' = [secretTimers EXCEPT ![p] = @ \ {id}]
    /\ secretMessageIds' = [secretMessageIds EXCEPT ![p] = @ \ {id}]
    /\ UNCHANGED <<now, mailbox, chan, dataChannel, isWebRTCConnected,
                   deliveredMessages, processedSignals, tasks, loadQ, nextMsg,
                   nextSecret, sendLog, secretLog, ui, uiErr>>

\* ===================================================================
\* Data channel events (webrtc.js setupDataChannel, enhanced-app.js
\* setupWebRTCCallbacks)
\* ===================================================================

\* channel.onmessage and the app's webrtc.onMessageReceived: a secret goes
\* to handleWebRTCSecret, a chat payload to handleIncomingMessage(…,'webrtc')
ChannelReceive(p) ==
    /\ dataChannel[p] = "open"
    /\ chan[p] # <<>>
    /\ LET msg == Head(chan[p]) IN
       /\ chan' = [chan EXCEPT ![p] = Tail(@)]
       /\ IF msg.type = "webrtc_secret"
          THEN /\ tasks' = SecretStart(tasks, p, msg)
               /\ secretMessageIds' = SecretIdsAfter(p, msg)
          ELSE /\ tasks' = HimStart(tasks, deliveredMessages, p, msg, "webrtc", "channel")
               /\ UNCHANGED secretMessageIds
    /\ UNCHANGED <<now, mailbox, dataChannel, isWebRTCConnected,
                   deliveredMessages, processedSignals, secretTimers, loadQ,
                   nextMsg, nextSecret, sendLog, secretLog, ui, uiErr>>

\* webrtc.onConnectionStateChange as the app installs it: the status is
\* shown and messageManager.isWebRTCConnected = (state === 'connected')
AppConnectionState(conn, p, state) == [conn EXCEPT ![p] = (state = "connected")]

\* channel.onopen: the channel is open, the connectivity timer is cleared
\* and 'connected' is reported
DataChannelOpen(p) ==
    /\ dataChannel[p] \in {"none", "connecting"}
    /\ dataChannel' = [dataChannel EXCEPT ![p] = "open"]
    /\ iceTimeoutId' = [iceTimeoutId EXCEPT ![p] = "none"]
    /\ isWebRTCConnected' = AppConnectionState(isWebRTCConnected, p, "connected")
    /\ connectionStatus' = [connectionStatus EXCEPT ![p] = "connected"]
    /\ UNCHANGED <<rtcButStatus, sigVars, roomVars, iceConnectionState, localStream,
                   closeLog, restartCall>>
    /\ UNCHANGED <<now, mailbox, chan, deliveredMessages, processedSignals,
                   secretMessageIds, secretTimers, tasks, loadQ, nextMsg,
                   nextSecret, sendLog, secretLog, ui, uiErr>>

\* channel.onclose: the channel is closed and 'disconnected' is reported
DataChannelClose(p) ==
    /\ dataChannel[p] = "open"
    /\ dataChannel' = [dataChannel EXCEPT ![p] = "closed"]
    /\ isWebRTCConnected' = AppConnectionState(isWebRTCConnected, p, "disconnected")
    /\ connectionStatus' = [connectionStatus EXCEPT ![p] = "disconnected"]
    /\ UNCHANGED <<rtcButStatus, sigVars, roomVars, iceVars>>
    /\ UNCHANGED <<now, mailbox, chan, deliveredMessages, processedSignals,
                   secretMessageIds, secretTimers, tasks, loadQ, nextMsg,
                   nextSecret, sendLog, secretLog, ui, uiErr>>

\* peerConnection.onconnectionstatechange / oniceconnectionstatechange
\* reporting a state of the session while the channel stays as it is
SessionStateEvent(p, state) ==
    /\ isWebRTCConnected' = AppConnectionState(isWebRTCConnected, p, state)
    /\ isWebRTCConnected' # isWebRTCConnected
    /\ connectionStatus' = [connectionStatus EXCEPT ![p] = state]
    /\ UNCHANGED <<rtcButStatus, sigVars, roomVars, iceVars>>
    /\ UNCHANGED <<now, mailbox, chan, dataChannel, deliveredMessages,
                   processedSignals, secretMessageIds, secretTimers, tasks,
                   loadQ, nextMsg, nextSecret, sendLog, secretLog, ui, uiErr>>

\* A secret payload from the peer that the local key does not decrypt
UndecryptableSecret(p) ==
    /\ dataChannel[p] = "open"
    /\ nextSecret < MaxSecrets
    /\ nextSecret' = nextSecret + 1
    /\ chan' = [chan EXCEPT ![p] = Append(@,
            [Payload(<<"secret", nextSecret + 1>>, "webrtc_secret", Other(p), now)
                EXCEPT !.data = "bad"])]
    /\ UNCHANGED <<now, mailbox, dataChannel, isWebRTCConnected,
                   deliveredMessages, processedSignals, secretMessageIds,
                   secretTimers, tasks, loadQ, nextMsg, sendLog, secretLog,
                   ui, uiErr>>

\* Date.now() advances: by a millisecond, or past the expiry of everything
\* stored so far
Tick(d) ==
    /\ now + d <= MaxClock
    /\ (now + d) % MESSAGE_TTL <= MaxTicks
    /\ now' = now + d
    /\ UNCHANGED <<mailbox, chan, dataChannel, isWebRTCConnected,
                   deliveredMessages, processedSignals, secretMessageIds,
                   secretTimers, tasks, loadQ, nextMsg, nextSecret, sendLog,
                   secretLog, ui, uiErr>>

\* ===================================================================
\* WebRTCManager (webrtc.js 3-533), the app's handshake callback
\* (enhanced-app.js setupSignalingCallbacks) and the parts of joinRoom and
\* leaveRoom that create and close the session
\* ===================================================================

RecordKeys == 1..MaxRecords     \* push() keys of the handshake records
NoDesc == <<"none", 0>>         \* peerConnection.remoteDescription === null
Forms == {"ok", "bad"}          \* well-formed, or lacking a mandatory field
NoCall == [kind |-> "none", form |-> "ok", id |-> 0, outcome |-> "none"]

RtcTask(p, op, id) == [peer |-> p, op |-> op, id |-> id]

\* a record pushed under webrtc_signaling/{roomId}/{offers|answers}
SignalRecord(kind, sender, ts, key) ==
    [kind |-> kind, sender |-> sender, timestamp |-> ts, key |-> key]

\* new RTCPeerConnection(webrtcConfig)
NewPeerConnection(p) ==
    /\ peerConnection' = [peerConnection EXCEPT ![p] = "live"]
    /\ signalingState' = [signalingState EXCEPT ![p] = "stable"]
    /\ remoteDescription' = [remoteDescription EXCEPT ![p] = NoDesc]
    /\ sessions' = sessions + 1

\* the catch of the app's callback for an offer or an answer:
\* updateConnectionStatus('failed') and a 5 s timer back to 'ready'
CallbackFailed_NoTimer(p) ==
    /\ connectionStatus' = [connectionStatus EXCEPT ![p] = "failed"]
    /\ UNCHANGED statusTimers
CallbackFailed(p) ==
    /\ connectionStatus' = [connectionStatus EXCEPT ![p] = "failed"]
    /\ statusTimers' = [statusTimers EXCEPT ![p] = @ + 1]

\* joinRoom of the app, from ensureCleanState to createPeerConnection; the
\* initiator goes on into createOffer: createDataChannel, then the await of
\* peerConnection.createOffer()
JoinRoom(p, isInitiator) ==
    /\ sessionId[p] = NoPeer
    /\ peerConnection[p] = "null"
    /\ sessions < MaxSessions
    /\ NewPeerConnection(p)
    /\ sessionId' = [sessionId EXCEPT ![p] = p]
    /\ listening' = [listening EXCEPT ![p] = TRUE]
    /\ processedSignals' = [processedSignals EXCEPT ![p] = {}]
    /\ deliveredMessages' = [deliveredMessages EXCEPT ![p] = {}]
    /\ secretMessageIds' = [secretMessageIds EXCEPT ![p] = {}]
    /\ isWebRTCConnected' = [isWebRTCConnected EXCEPT ![p] = FALSE]
    /\ sessionLog' = [sessionLog EXCEPT ![p] = <<>>]
    /\ IF isInitiator
       THEN /\ dataChannel' = [dataChannel EXCEPT ![p] = "connecting"]
            /\ rtcTasks' = rtcTasks \cup {RtcTask(p, "createOffer", 0)}
            /\ connectionStatus' = [connectionStatus EXCEPT ![p] = "connecting"]
       ELSE /\ connectionStatus' = [connectionStatus EXCEPT ![p] = "in_room"]
            /\ UNCHANGED <<dataChannel, rtcTasks>>
    /\ UNCHANGED <<now, mailbox, chan, secretTimers, tasks, loadQ, nextMsg,
                   nextSecret, sendLog, secretLog, ui, uiErr>>
    /\ forwards' = [forwards EXCEPT ![p] = [k \in RecordKeys |-> 0]]
    /\ UNCHANGED <<iceCandidateBuffer, statusTimers, lastCall, nextInput, signals,
                   deliveries, roomVars, iceVars>>

\* createOffer resumes: setLocalDescription(offer) settles; joinRoom then
\* writes the offer (signaling.sendOffer) and shows 'in_room'
OfferLocalSet(t) ==
    /\ t \in rtcTasks
    /\ t.op = "createOffer"
    /\ rtcTasks' = rtcTasks \ {t}
    /\ connectionStatus' = [connectionStatus EXCEPT ![t.peer] = "in_room"]
    /\ Cardinality(signals) < MaxRecords
    /\ IF signalingState[t.peer] = "stable"
       THEN /\ signalingState' = [signalingState EXCEPT ![t.peer] = "have-local-offer"]
            /\ signals' = signals \cup
                 {SignalRecord("offer", sessionId[t.peer], now, Cardinality(signals) + 1)}
       ELSE UNCHANGED <<signalingState, signals>>
    /\ UNCHANGED <<msgVars, listening, sessionId, deliveries, forwards, roomVars, iceVars>>
    /\ UNCHANGED <<peerConnection, remoteDescription, iceCandidateBuffer,
                   sessionLog, statusTimers, lastCall, nextInput, sessions>>

\* processBufferedCandidates up to its first await: nothing to do on an empty
\* buffer, else the head is shifted and handed to the session
DrainBuffer(buf) == IF buf = <<>> THEN <<>> ELSE Tail(buf)
DrainLog(log, buf) == IF buf = <<>> THEN log ELSE Append(log, <<"candidate", Head(buf)>>)

\* handleAnswer: only in have-local-offer is the remote description set
HandleAnswerGuard_AnyState(p) == TRUE
HandleAnswerGuard(p) == signalingState[p] = "have-local-offer"

\* the app's callback for an answer: 'connecting', then handleAnswer up to
\* its await of setRemoteDescription
OnSignalingAnswer(p, form) ==
    /\ nextInput < MaxInputs
    /\ nextInput' = nextInput + 1
    /\ LET n == nextInput + 1
           call == [kind |-> "answer", form |-> form, id |-> n, outcome |-> "none"] IN
       IF peerConnection[p] = "null"
       THEN /\ lastCall' = [lastCall EXCEPT ![p] = [call EXCEPT !.outcome = "nosession"]]
            /\ connectionStatus' = [connectionStatus EXCEPT ![p] = "connecting"]
            /\ UNCHANGED <<rtcTasks, statusTimers>>
       ELSE IF ~HandleAnswerGuard(p)
       THEN /\ lastCall' = [lastCall EXCEPT ![p] = [call EXCEPT !.outcome = "ignored"]]
            /\ connectionStatus' = [connectionStatus EXCEPT ![p] = "connecting"]
            /\ UNCHANGED <<rtcTasks, statusTimers>>
       ELSE IF form = "bad"
       THEN /\ lastCall' = [lastCall EXCEPT ![p] = [call EXCEPT !.outcome = "invalid"]]
            /\ CallbackFailed(p)
            /\ UNCHANGED rtcTasks
       ELSE /\ lastCall' = [lastCall EXCEPT ![p] = [call EXCEPT !.outcome = "pending"]]
            /\ rtcTasks' = rtcTasks \cup {RtcTask(p, "srdAnswer", n)}
            /\ connectionStatus' = [connectionStatus EXCEPT ![p] = "connecting"]
            /\ UNCHANGED statusTimers
    /\ UNCHANGED <<peerConnection, signalingState, remoteDescription,
                   iceCandidateBuffer, sessionLog, sessions>>

\* setRemoteDescription(answer) settles. The session accepts an answer only
\* in have-local-offer; otherwise the promise rejects, handleAnswer rethrows
\* and the app's callback shows 'failed'. On success the buffer is drained.
RemoteAnswerSettled(t) ==
    /\ t \in rtcTasks
    /\ t.op = "srdAnswer"
    /\ LET p == t.peer IN
       IF signalingState[p] = "have-local-offer"
       THEN /\ signalingState' = [signalingState EXCEPT ![p] = "stable"]
            /\ remoteDescription' = [remoteDescription EXCEPT ![p] = <<"answer", t.id>>]
            /\ sessionLog' = [sessionLog EXCEPT ![p] =
                   DrainLog(Append(@, <<"answer", t.id>>), iceCandidateBuffer[p])]
            /\ iceCandidateBuffer' = [iceCandidateBuffer EXCEPT ![p] = DrainBuffer(@)]
            /\ rtcTasks' = (rtcTasks \ {t}) \cup
                   (IF iceCandidateBuffer[p] = <<>> THEN {}
                    ELSE {RtcTask(p, "drainAnswer", t.id)})
            /\ UNCHANGED <<connectionStatus, statusTimers>>
       ELSE /\ rtcTasks' = rtcTasks \ {t}
            /\ CallbackFailed(p)
            /\ UNCHANGED <<signalingState, remoteDescription, sessionLog,
                           iceCandidateBuffer>>
    /\ UNCHANGED <<msgVars, sigVars, roomVars, iceVars>>
    /\ UNCHANGED <<peerConnection, lastCall, nextInput, sessions>>

\* the app's callback for an offer: 'connecting', a session is created if
\* there is none, then createAnswer up to its await of setRemoteDescription
OnSignalingOffer(p, form) ==
    /\ nextInput < MaxInputs
    /\ nextInput' = nextInput + 1
    /\ IF peerConnection[p] = "null"
       THEN /\ sessions < MaxSessions
            /\ NewPeerConnection(p)
            /\ sessionLog' = [sessionLog EXCEPT ![p] = <<>>]
       ELSE UNCHANGED <<peerConnection, signalingState, remoteDescription,
                        sessions, sessionLog>>
    /\ LET n == nextInput + 1
           call == [kind |-> "offer", form |-> form, id |-> n, outcome |-> "none"] IN
       IF form = "bad"
       THEN /\ lastCall' = [lastCall EXCEPT ![p] = [call EXCEPT !.outcome = "invalid"]]
            /\ CallbackFailed(p)
            /\ UNCHANGED rtcTasks
       ELSE /\ lastCall' = [lastCall EXCEPT ![p] = [call EXCEPT !.outcome = "pending"]]
            /\ rtcTasks' = rtcTasks \cup {RtcTask(p, "srdOffer", n)}
            /\ connectionStatus' = [connectionStatus EXCEPT ![p] = "connecting"]
            /\ UNCHANGED statusTimers
    /\ UNCHANGED iceCandidateBuffer

\* setRemoteDescription(offer) settles. In stable or have-remote-offer the
\* offer is applied. In have-local-offer (both sides offered) the session
\* either rolls the local offer back and applies it, or rejects: which one
\* depends on the browser. On success the buffer is drained, and with an
\* empty buffer createAnswer goes on to peerConnection.createAnswer().
RemoteOfferSettled(t, rollback) ==
    /\ t \in rtcTasks
    /\ t.op = "srdOffer"
    /\ LET p == t.peer IN
       IF signalingState[p] # "have-local-offer" \/ rollback
       THEN /\ signalingState' = [signalingState EXCEPT ![p] = "have-remote-offer"]
            /\ remoteDescription' = [remoteDescription EXCEPT ![p] = <<"offer", t.id>>]
            /\ sessionLog' = [sessionLog EXCEPT ![p] =
                   DrainLog(Append(@, <<"offer", t.id>>), iceCandidateBuffer[p])]
            /\ iceCandidateBuffer' = [iceCandidateBuffer EXCEPT ![p] = DrainBuffer(@)]
            /\ rtcTasks' = (rtcTasks \ {t}) \cup
                   {RtcTask(p, IF iceCandidateBuffer[p] = <<>> THEN "makeAnswer"
                                ELSE "drainOffer", t.id)}
            /\ UNCHANGED <<connectionStatus, statusTimers>>
       ELSE /\ rtcTasks' = rtcTasks \ {t}
            /\ CallbackFailed(p)
            /\ UNCHANGED <<signalingState, remoteDescription, sessionLog,
                           iceCandidateBuffer>>
    /\ UNCHANGED <<msgVars, sigVars, roomVars, iceVars>>
    /\ UNCHANGED <<peerConnection, lastCall, nextInput, sessions>>

\* processBufferedCandidates resumes after peerConnection.addIceCandidate
\* settled (a rejection is caught and logged): the next candidate is shifted
\* and handed over, or the loop ends and the caller goes on
DrainNext(t) ==
    /\ t \in rtcTasks
    /\ t.op \in {"drainAnswer", "drainOffer"}
    /\ LET p == t.peer IN
       /\ sessionLog' = [sessionLog EXCEPT ![p] = DrainLog(@, iceCandidateBuffer[p])]
       /\ iceCandidateBuffer' = [iceCandidateBuffer EXCEPT ![p] = DrainBuffer(@)]
       /\ rtcTasks' = (rtcTasks \ {t}) \cup
              (IF iceCandidateBuffer[p] # <<>> THEN {t}
               ELSE IF t.op = "drainOffer" THEN {RtcTask(p, "makeAnswer", t.id)}
               ELSE {})
    /\ UNCHANGED <<msgVars, sigVars, roomVars, iceVars>>
    /\ UNCHANGED <<peerConnection, signalingState, remoteDescription,
                   connectionStatus, statusTimers, lastCall, nextInput, sessions>>

\* createAnswer resumes: peerConnection.createAnswer() and
\* setLocalDescription(answer) need have-remote-offer; the app then writes
\* the answer (signaling.sendAnswer). A rejection reaches the app's catch.
LocalAnswerSet(t) ==
    /\ t \in rtcTasks
    /\ t.op = "makeAnswer"
    /\ Cardinality(signals) < MaxRecords
    /\ rtcTasks' = rtcTasks \ {t}
    /\ LET p == t.peer IN
       IF signalingState[p] = "have-remote-offer"
       THEN /\ signalingState' = [signalingState EXCEPT ![p] = "stable"]
            /\ signals' = signals \cup
                 {SignalRecord("answer", sessionId[p], now, Cardinality(signals) + 1)}
            /\ UNCHANGED <<connectionStatus, statusTimers>>
       ELSE            /\ CallbackFailed(p)
            /\ UNCHANGED <<signalingState, signals>>
    /\ UNCHANGED <<msgVars, listening, sessionId, deliveries, forwards, roomVars, iceVars>>
    /\ UNCHANGED <<peerConnection, remoteDescription, iceCandidateBuffer,
                   sessionLog, lastCall, nextInput, sessions>>

\* iceCandidateBuffer.push(iceCandidate)
BufferCandidate_Front(buf, c) == <<c>> \o buf
BufferCandidate(buf, c) == Append(buf, c)

\* the app's callback for a candidate: addIceCandidate. Without a session it
\* returns; a candidate lacking its candidate field is dropped; with a remote
\* description the candidate goes to the session, else into the buffer.
OnSignalingCandidate(p, form) ==
    /\ nextInput < MaxInputs
    /\ nextInput' = nextInput + 1
    /\ LET n == nextInput + 1
           call == [kind |-> "candidate", form |-> form, id |-> n, outcome |-> "none"] IN
       IF peerConnection[p] = "null"
       THEN /\ lastCall' = [lastCall EXCEPT ![p] = [call EXCEPT !.outcome = "nosession"]]
            /\ UNCHANGED <<sessionLog, iceCandidateBuffer>>
       ELSE IF form = "bad"
       THEN /\ lastCall' = [lastCall EXCEPT ![p] = [call EXCEPT !.outcome = "invalid"]]
            /\ UNCHANGED <<sessionLog, iceCandidateBuffer>>
       ELSE IF remoteDescription[p] # NoDesc
       THEN /\ lastCall' = [lastCall EXCEPT ![p] = [call EXCEPT !.outcome = "direct"]]
            /\ sessionLog' = [sessionLog EXCEPT ![p] = Append(@, <<"candidate", n>>)]
            /\ UNCHANGED iceCandidateBuffer
       ELSE /\ lastCall' = [lastCall EXCEPT ![p] = [call EXCEPT !.outcome = "buffered"]]
            /\ iceCandidateBuffer' = [iceCandidateBuffer EXCEPT ![p] = BufferCandidate(@, n)]
            /\ UNCHANGED sessionLog
    /\ UNCHANGED <<peerConnection, signalingState, remoteDescription, rtcTasks,
                   connectionStatus, statusTimers, sessions>>

\* What close() leaves of the connectivity timer: clearTimeout and null
ClearedTimer_Kept(timer) == timer
ClearedTimer(timer) == "none"

\* What endCall() leaves of the local media: every track stopped, null
StoppedStream(stream) == "null"

\* the state close() leaves: no pending timer, no buffered candidate, no
\* channel, no session, no local media
ClosedState(p) ==
    /\ iceTimeoutId[p] = "none"
    /\ iceCandidateBuffer[p] = <<>>
    /\ dataChannel[p] = "none"
    /\ peerConnection[p] = "null"
    /\ localStream[p] = "null"

\* history: "all" once a close() call found a pending timer, a buffered
\* candidate, an open channel, a session and local media all at once,
\* "again" once a further call found what that one left, "some" otherwise
CloseFound(p) ==
    IF /\ iceTimeoutId[p] # "none" /\ iceCandidateBuffer[p] # <<>>
       /\ dataChannel[p] = "open" /\ peerConnection[p] = "live"
       /\ localStream[p] = "live"
    THEN "all"
    ELSE IF closeLog[p] \in {"all", "again"} /\ ClosedState(p) THEN "again"
    ELSE "some"

\* WebRTCManager.close(): the timer cleared, channel and session closed and
\* forgotten, buffer emptied, endCall(). A closed session settles none of
\* its pending promises, so the calls that wait on it never resume; a
\* pending getUserMedia is not the session's and still settles.
Close(p) ==
    /\ iceTimeoutId' = [iceTimeoutId EXCEPT ![p] = ClearedTimer(@)]
    /\ dataChannel' = [dataChannel EXCEPT ![p] = "none"]
    /\ peerConnection' = [peerConnection EXCEPT ![p] = "null"]
    /\ signalingState' = [signalingState EXCEPT ![p] = "closed"]
    /\ remoteDescription' = [remoteDescription EXCEPT ![p] = NoDesc]
    /\ iceConnectionState' = [iceConnectionState EXCEPT ![p] = "new"]
    /\ iceCandidateBuffer' = [iceCandidateBuffer EXCEPT ![p] = <<>>]
    /\ localStream' = [localStream EXCEPT ![p] = StoppedStream(@)]
    /\ rtcTasks' = {t \in rtcTasks : t.peer # p \/ t.op = "getUserMedia"}
    /\ closeLog' = [closeLog EXCEPT ![p] = CloseFound(p)]
    /\ restartCall' = [restartCall EXCEPT ![p] = "none"]

\* leaveRoom of the app: signaling.leaveRoom (the last active participant
\* deletes the room's messages and handshake records; the session id is
\* forgotten and the processed ids cleared; off(roomRef) leaves the handshake
\* and mailbox listeners attached), then webrtc.close() and 'ready'
LeaveRoom(p, last) ==
    /\ sessionId[p] # NoPeer
    /\ Close(p)
    /\ sessionId' = [sessionId EXCEPT ![p] = NoPeer]
    /\ processedSignals' = [processedSignals EXCEPT ![p] = {}]
    /\ connectionStatus' = [connectionStatus EXCEPT ![p] = "ready"]
    /\ mailbox' = IF last THEN {} ELSE mailbox
    /\ signals' = IF last THEN {} ELSE signals
    /\ UNCHANGED <<now, chan, isWebRTCConnected, deliveredMessages,
                   secretMessageIds, secretTimers, tasks, loadQ, nextMsg,
                   nextSecret, sendLog, secretLog, ui, uiErr>>
    /\ UNCHANGED <<sessionLog, statusTimers, lastCall, nextInput, sessions,
                   listening, deliveries, forwards, roomVars>>

\* signaling.onSignalingMessage as the app installs it: the switch on type
OnSignalingMessage(p, type, form) ==
    \/ type = "offer" /\ OnSignalingOffer(p, form)
    \/ type = "answer" /\ OnSignalingAnswer(p, form)
    \/ type = "candidate" /\ OnSignalingCandidate(p, form)

\* a 5 s timer of the callback's catch fires: updateConnectionStatus('ready')
StatusReset(p) ==
    /\ statusTimers[p] > 0
    /\ statusTimers' = [statusTimers EXCEPT ![p] = @ - 1]
    /\ connectionStatus' = [connectionStatus EXCEPT ![p] = "ready"]
    /\ UNCHANGED <<msgVars, sigVars, roomVars, iceVars>>
    /\ UNCHANGED <<peerConnection, signalingState, remoteDescription,
                   iceCandidateBuffer, sessionLog, rtcTasks, lastCall, nextInput,
                   sessions>>

\* ===================================================================
\* WebRTCManager: connectivity events, the connectivity timer, media and
\* close (webrtc.js createPeerConnection, restartIce, startMediaCall,
\* endCall, close)
\* ===================================================================
IceStates == {"checking", "connected", "completed", "failed", "disconnected"}
ConnStates == {"connecting", "connected", "disconnected", "failed"}

\* everything but what a report through onConnectionStateChange, the
\* connectivity state and its timer touch
ReportFrame_ChannelDropped ==
    /\ dataChannel' = [q \in Peers |-> "none"]
    /\ UNCHANGED <<now, mailbox, chan, deliveredMessages,
                   processedSignals, secretMessageIds, secretTimers, tasks,
                   loadQ, nextMsg, nextSecret, sendLog, secretLog, ui, uiErr,
                   rtcButStatus, sigVars, roomVars, localStream, closeLog>>
ReportFrame ==
    UNCHANGED <<now, mailbox, chan, dataChannel, deliveredMessages,
                processedSignals, secretMessageIds, secretTimers, tasks,
                loadQ, nextMsg, nextSecret, sendLog, secretLog, ui, uiErr,
                rtcButStatus, sigVars, roomVars, localStream, closeLog>>

\* this.onConnectionStateChange(state) as the app installs it
ReportState(p, state) ==
    /\ isWebRTCConnected' = AppConnectionState(isWebRTCConnected, p, state)
    /\ connectionStatus' = [connectionStatus EXCEPT ![p] = state]

\* onconnectionstatechange's mapping of the session's state to the state
\* it reports
MappedState(conn, ice, channel) ==
    IF conn = "connected" /\ channel = "open" THEN "connected"
    ELSE IF conn = "connecting" \/ ice = "checking" THEN "connecting"
    ELSE IF conn = "failed" \/ ice = "failed" THEN "failed"
    ELSE conn

\* peerConnection.onconnectionstatechange with connectionState = conn
OnConnectionStateChange(p, conn) ==
    /\ peerConnection[p] = "live"
    /\ ReportState(p, MappedState(conn, iceConnectionState[p], dataChannel[p]))
    /\ UNCHANGED <<iceConnectionState, iceTimeoutId, restartCall>>
    /\ ReportFrame

\* restartIce(): the session restarts its connectivity checks, or, where
\* the browser has no restartIce (or the session is gone), 'failed' is
\* reported
RestartIce(p, supported) ==
    IF peerConnection[p] = "live" /\ supported
    THEN UNCHANGED <<isWebRTCConnected, connectionStatus>>
    ELSE ReportState(p, "failed")

\* the timer the handler of a connectivity state leaves pending
ArmedTimer(ice) ==
    IF ice \in {"checking", "disconnected"} THEN ice ELSE "none"

\* the switch of oniceconnectionstatechange calls restartIce() at once for
\* 'failed' only
RestartFor_Never(ice) == "none"
RestartFor(ice) == IF ice = "failed" THEN "failed" ELSE "none"

\* what the timer armed for the state `armed` does when it fires in the
\* state ice: the 30 s timer calls restartIce(), the 10 s timer calls it if
\* the state is still 'disconnected'
TimerRestarts(armed, ice) ==
    IF armed = "checking" \/ ice = "disconnected" THEN armed ELSE "none"

\* peerConnection.oniceconnectionstatechange with iceConnectionState = ice:
\* the pending timer is cleared, then the switch
OnIceConnectionStateChange(p, ice, supported) ==
    /\ peerConnection[p] = "live"
    /\ ice # iceConnectionState[p]
    /\ ice = "failed" \/ supported      \* read only by restartIce
    /\ iceConnectionState' = [iceConnectionState EXCEPT ![p] = ice]
    /\ iceTimeoutId' = [iceTimeoutId EXCEPT ![p] = ArmedTimer(ice)]
    /\ CASE ice \in {"connected", "completed"} -> ReportState(p, "connected")
         [] ice = "failed" -> RestartIce(p, supported)
         [] OTHER -> UNCHANGED <<isWebRTCConnected, connectionStatus>>
    /\ restartCall' = [restartCall EXCEPT ![p] = RestartFor(ice)]
    /\ ReportFrame

\* the pending connectivity timer fires: after 30 s of checking restartIce();
\* after 10 s of disconnected restartIce() if the state is still disconnected
IceTimeout(p, supported) ==
    /\ iceTimeoutId[p] # "none"
    /\ iceTimeoutId' = [iceTimeoutId EXCEPT ![p] = "none"]
    /\ IF TimerRestarts(iceTimeoutId[p], iceConnectionState[p]) # "none"
       THEN RestartIce(p, supported)
       ELSE UNCHANGED <<isWebRTCConnected, connectionStatus>>
    /\ restartCall' = [restartCall EXCEPT ![p] =
                          TimerRestarts(iceTimeoutId[p], iceConnectionState[p])]
    /\ UNCHANGED iceConnectionState
    /\ ReportFrame

\* everything but the local media and the calls in flight
MediaFrame ==
    UNCHANGED <<msgVars, sigVars, roomVars, iceConnectionState, iceTimeoutId,
                closeLog, restartCall, peerConnection, signalingState, remoteDescription,
                iceCandidateBuffer, sessionLog, connectionStatus, statusTimers,
                lastCall, nextInput, sessions>>

\* startMediaCall up to `await navigator.mediaDevices.getUserMedia`
StartMediaCall(p) ==
    /\ RtcTask(p, "getUserMedia", 0) \notin rtcTasks
    /\ rtcTasks' = rtcTasks \cup {RtcTask(p, "getUserMedia", 0)}
    /\ UNCHANGED localStream
    /\ MediaFrame

\* getUserMedia settles: the stream is kept and its tracks are added to the
\* session if there is one (isInitiator is never set, so renegotiateConnection
\* does nothing); a refusal is rethrown
MediaSettled(t, granted) ==
    /\ t \in rtcTasks /\ t.op = "getUserMedia"
    /\ rtcTasks' = rtcTasks \ {t}
    /\ localStream' = IF granted THEN [localStream EXCEPT ![t.peer] = "live"]
                      ELSE localStream
    /\ MediaFrame

\* endCall(): the tracks are stopped and the stream forgotten
EndCall(p) ==
    /\ localStream[p] # "null"
    /\ localStream' = [localStream EXCEPT ![p] = StoppedStream(@)]
    /\ UNCHANGED rtcTasks
    /\ MediaFrame

\* close() as an operation of the transport manager, whoever calls it
WebRTCClose(p) ==
    /\ Close(p)
    /\ UNCHANGED <<now, mailbox, chan, isWebRTCConnected, deliveredMessages,
                   processedSignals, secretMessageIds, secretTimers, tasks,
                   loadQ, nextMsg, nextSecret, sendLog, secretLog, ui, uiErr>>
    /\ UNCHANGED <<sessionLog, connectionStatus, statusTimers, lastCall,
                   nextInput, sessions, sigVars, roomVars>>

\* ===================================================================
\* EnhancedSignalingManager: the handshake listeners and their dedup
\* (enhanced-signaling.js setupWebRTCSignaling, handleSignalingMessage)
\* ===================================================================

\* The timestamp of what a listener forwards. The offer and answer listeners
\* forward the record; the candidate listener forwards the record's inner
\* candidate, which has no timestamp field (NoTtl = undefined).
ForwardedTimestamp(r) == IF r.kind = "candidate" THEN NoTtl ELSE r.timestamp

\* `${type}_${data.timestamp || Date.now()}`, at being Date.now() on receipt
\* (a timestamp that is present is a Date.now() value and never 0)
SignalId(r, at) ==
    <<r.kind, IF ForwardedTimestamp(r) = NoTtl THEN at ELSE ForwardedTimestamp(r)>>

\* the listeners' test: offerData.sender !== this.sessionId
ListenerPasses_Own(p, r) == r.sender = sessionId[p]
ListenerPasses(p, r) == r.sender # sessionId[p]

\* Another participant's page writes an offer, an answer or a candidate
\* (sendOffer, sendAnswer, sendIceCandidate run there)
RemoteWrites(p, kind) ==
    /\ Cardinality(signals) < MaxRecords
    /\ signals' = signals \cup
         {SignalRecord(kind, Other(p), now, Cardinality(signals) + 1)}
    /\ UNCHANGED <<msgVars, rtcVars, sessionId, listening, deliveries, forwards, roomVars, iceVars>>

\* peerConnection.onicecandidate once a local description is set: the app's
\* onIceCandidate writes the candidate (signaling.sendIceCandidate)
LocalCandidate(p) ==
    /\ peerConnection[p] = "live"
    /\ \/ signalingState[p] = "have-local-offer"
       \/ signalingState[p] = "stable" /\ remoteDescription[p] # NoDesc
    /\ Cardinality(signals) < MaxRecords
    /\ signals' = signals \cup
         {SignalRecord("candidate", sessionId[p], now, Cardinality(signals) + 1)}
    /\ UNCHANGED <<msgVars, rtcVars, sessionId, listening, deliveries, forwards, roomVars, iceVars>>

\* The store fires a child-added event for record r at p's listener (it may
\* fire again for a record already delivered). The listener drops a record
\* of this.sessionId; handleSignalingMessage drops an id it has processed,
\* else adds the id and calls onSignalingMessage.
SignalDelivered(p, r) ==
    /\ listening[p]
    /\ r \in signals
    /\ deliveries < MaxDeliveries
    /\ deliveries' = deliveries + 1
    /\ IF ListenerPasses(p, r) /\ SignalId(r, now) \notin processedSignals[p]
       THEN /\ processedSignals' = [processedSignals EXCEPT ![p] = @ \cup {SignalId(r, now)}]
            /\ forwards' = [forwards EXCEPT ![p][r.key] = @ + 1]
            /\ OnSignalingMessage(p, r.kind, "ok")
       ELSE UNCHANGED <<processedSignals, forwards, rtcVars>>
    /\ UNCHANGED <<now, mailbox, chan, dataChannel, isWebRTCConnected,
                   deliveredMessages, secretMessageIds, secretTimers, tasks,
                   loadQ, nextMsg, nextSecret, sendLog, secretLog, ui, uiErr>>
    /\ UNCHANGED <<signals, sessionId, listening, roomVars, iceVars>>

\* ===================================================================
\* Room membership in the store: EnhancedSignalingManager.joinRoom,
\* checkRoomExists, checkActiveParticipants, updateActivity, leaveRoom,
\* cleanupRoomCompletely and the reads the app's joinRoom makes first
\* ===================================================================

\* rooms/{roomId}/participants/{sessionId}; a field that is absent is NoTtl
NoParticipant ==
    [present |-> FALSE, active |-> FALSE, joined |-> NoTtl,
     lastSeen |-> NoTtl, left |-> NoTtl]

\* checkActiveParticipants' test of one record at Date.now() = at
IsActive(rec, at) ==
    /\ rec.present
    /\ \/ rec.active /\ rec.lastSeen # NoTtl /\ at - rec.lastSeen < ACTIVE_TIMEOUT
       \/ rec.active /\ rec.joined # NoTtl /\ at - rec.joined < ACTIVE_TIMEOUT

\* activeCount of checkActiveParticipants for a snapshot
ActiveCount(parts, at) == Cardinality({j \in Joiners : IsActive(parts[j], at)})

\* what checkActiveParticipants returns: the count, or 0 from its catch
\* block when the read fails
CheckedCount(parts, at, ok) == IF ok THEN ActiveCount(parts, at) ELSE 0

\* the capacity test of signaling.joinRoom
RoomIsFull(count) == count >= MAX_PARTICIPANTS

RoomFrame ==
    UNCHANGED <<now, chan, dataChannel, isWebRTCConnected, deliveredMessages,
                processedSignals, secretMessageIds, secretTimers, tasks,
                loadQ, nextMsg, nextSecret, sendLog, secretLog, ui, uiErr,
                rtcVars, sessionId, listening, deliveries, forwards, iceVars,
                inactivity>>

\* app.joinRoom up to the settling of checkRoomExists: a room that does not
\* exist makes the page initiator; a failed read throws into joinRoom's catch
RoomExistsRead(j, ok) ==
    /\ roomTask[j] = "idle"
    /\ roomTask' = [roomTask EXCEPT ![j] =
         IF ~ok THEN "error" ELSE IF roomExists THEN "checkActive" ELSE "update"]
    /\ UNCHANGED <<roomExists, participants, mailbox, signals>>
    /\ RoomFrame

\* the app's checkActiveParticipants settles: no active participant makes
\* the page initiator (no capacity test), else signaling.joinRoom starts its
\* own check
AppActiveRead(j, ok) ==
    /\ roomTask[j] = "checkActive"
    /\ roomTask' = [roomTask EXCEPT ![j] =
         IF CheckedCount(participants, now, ok) > 0 THEN "joinCheck" ELSE "update"]
    /\ UNCHANGED <<roomExists, participants, mailbox, signals>>
    /\ RoomFrame

\* signaling.joinRoom's checkActiveParticipants settles: throw 'Room is
\* full' or go on to the update
JoinCheckRead(j, ok) ==
    /\ roomTask[j] = "joinCheck"
    /\ roomTask' = [roomTask EXCEPT ![j] =
         IF RoomIsFull(CheckedCount(participants, now, ok)) THEN "full" ELSE "update"]
    /\ UNCHANGED <<roomExists, participants, mailbox, signals>>
    /\ RoomFrame

\* firebaseRefs.update(roomRef, roomUpdate) settles: the participant record
\* and lastActivity are written, or the rejection throws into the catch
RoomUpdate(j, acc) ==
    /\ roomTask[j] = "update"
    /\ IF acc
       THEN /\ participants' = [participants EXCEPT ![j] =
                 [present |-> TRUE, active |-> TRUE, joined |-> now,
                  lastSeen |-> now, left |-> NoTtl]]
            /\ roomExists' = TRUE
            /\ roomTask' = [roomTask EXCEPT ![j] = "in_room"]
       ELSE /\ roomTask' = [roomTask EXCEPT ![j] = "error"]
            /\ UNCHANGED <<roomExists, participants>>
    /\ UNCHANGED <<mailbox, signals>>
    /\ RoomFrame

\* updateActivity (30 s interval, visibility change): lastSeen and
\* lastActivity are written
UpdateActivity(j) ==
    /\ roomTask[j] = "in_room"
    /\ participants[j].lastSeen # now
    /\ participants' = [participants EXCEPT ![j].present = TRUE, ![j].lastSeen = now]
    /\ roomExists' = TRUE
    /\ UNCHANGED <<roomTask, mailbox, signals>>
    /\ RoomFrame

\* Date.now() runs on by a liveness window
WindowPasses ==
    /\ now + ACTIVE_TIMEOUT <= MaxStale * ACTIVE_TIMEOUT
    /\ now' = now + ACTIVE_TIMEOUT
    /\ UNCHANGED <<mailbox, chan, dataChannel, isWebRTCConnected,
                   deliveredMessages, processedSignals, secretMessageIds,
                   secretTimers, tasks, loadQ, nextMsg, nextSecret, sendLog,
                   secretLog, ui, uiErr, rtcVars, sigVars, roomVars, iceVars>>

\* signaling.leaveRoom up to the settling of its update: the leaver's record
\* is marked inactive with a left timestamp. (A rejected update throws out of
\* leaveRoom and changes nothing.)
LeaveMarked(j) ==
    /\ roomTask[j] = "in_room"
    /\ participants' = [participants EXCEPT
         ![j].present = TRUE, ![j].active = FALSE, ![j].left = now]
    /\ roomExists' = TRUE
    /\ roomTask' = [roomTask EXCEPT ![j] = "leaveCheck"]
    /\ UNCHANGED <<mailbox, signals>>
    /\ RoomFrame

\* leaveRoom's checkActiveParticipants settles: a count of 0 starts
\* cleanupRoomCompletely, else the leave is over
LeaveCheckRead(j, ok) ==
    /\ roomTask[j] = "leaveCheck"
    /\ roomTask' = [roomTask EXCEPT ![j] =
         IF CheckedCount(participants, now, ok) = 0 THEN "cleanMessages" ELSE "idle"]
    /\ UNCHANGED <<roomExists, participants, mailbox, signals>>
    /\ RoomFrame

\* cleanupRoomCompletely: remove(encrypted_messages/{roomId}) settles; a
\* rejection ends the cleanup in its catch block
CleanMessages(j, acc) ==
    /\ roomTask[j] = "cleanMessages"
    /\ mailbox' = IF acc THEN {} ELSE mailbox
    /\ roomTask' = [roomTask EXCEPT ![j] = IF acc THEN "cleanSignaling" ELSE "idle"]
    /\ UNCHANGED <<roomExists, participants, signals>>
    /\ RoomFrame

\* cleanupRoomCompletely: remove(webrtc_signaling/{roomId}) settles
CleanSignaling(j, acc) ==
    /\ roomTask[j] = "cleanSignaling"
    /\ signals' = IF acc THEN {} ELSE signals
    /\ roomTask' = [roomTask EXCEPT ![j] = IF acc THEN "cleanRoom" ELSE "idle"]
    /\ UNCHANGED <<roomExists, participants, mailbox>>
    /\ RoomFrame

\* cleanupRoomCompletely: remove(rooms/{roomId}) settles, and leaveRoom ends
CleanRoom(j, acc) ==
    /\ roomTask[j] = "cleanRoom"
    /\ roomExists' = IF acc THEN FALSE ELSE roomExists
    /\ participants' = IF acc THEN [k \in Joiners |-> NoParticipant] ELSE participants
    /\ roomTask' = [roomTask EXCEPT ![j] = "idle"]
    /\ UNCHANGED <<mailbox, signals>>
    /\ RoomFrame

\* updateActivity called by the app's 30 s interval or its visibility
\* handler (isInRoom is still true) while leaveRoom waits for
\* remove(rooms/{roomId}): roomRef, sessionId and currentRoomId are still
\* set, and the update is issued behind the removal
LateHeartbeat(j) ==
    /\ roomTask[j] = "cleanRoom"
    /\ inactivity[j] = "none"
    /\ inactivity' = [inactivity EXCEPT ![j] = "update"]
    /\ UNCHANGED <<roomExists, participants, mailbox, signals, now, chan,
                   dataChannel, isWebRTCConnected, deliveredMessages,
                   processedSignals, secretMessageIds, secretTimers, tasks,
                   loadQ, nextMsg, nextSecret, sendLog, secretLog, ui, uiErr,
                   rtcVars, sessionId, listening, deliveries, forwards, iceVars,
                   roomTask>>

\* the store applies that update, after the removal it was issued behind:
\* participants/{sessionId}/lastSeen and lastActivity are written
HeartbeatLands(j) ==
    /\ inactivity[j] = "update"
    /\ roomTask[j] # "cleanRoom"
    /\ participants' = [participants EXCEPT ![j].present = TRUE, ![j].lastSeen = now]
    /\ roomExists' = TRUE
    /\ inactivity' = [inactivity EXCEPT ![j] = "none"]
    /\ UNCHANGED <<mailbox, signals, now, chan,
                   dataChannel, isWebRTCConnected, deliveredMessages,
                   processedSignals, secretMessageIds, secretTimers, tasks,
                   loadQ, nextMsg, nextSecret, sendLog, secretLog, ui, uiErr,
                   rtcVars, sessionId, listening, deliveries, forwards, iceVars,
                   roomTask>>
\* everything but the store's room, mailbox and handshake records and the
\* page's inactivity check
InactivityFrame ==
    UNCHANGED <<now, chan, dataChannel, isWebRTCConnected, deliveredMessages,
                processedSignals, secretMessageIds, secretTimers, tasks,
                loadQ, nextMsg, nextSecret, sendLog, secretLog, ui, uiErr,
                rtcVars, sessionId, listening, deliveries, forwards, iceVars,
                roomTask>>

\* updateActivity whose heartbeat is the tenth since the last check: lastSeen
\* and lastActivity are written, the counter is reset and
\* checkForInactiveRoomCleanup starts its read. (The counter itself is not
\* kept: any heartbeat may be the tenth.)
TenthHeartbeat(j) ==
    /\ roomTask[j] = "in_room"
    /\ inactivity[j] = "none"
    /\ participants' = [participants EXCEPT ![j].present = TRUE, ![j].lastSeen = now]
    /\ roomExists' = TRUE
    /\ inactivity' = [inactivity EXCEPT ![j] = "check"]
    /\ UNCHANGED <<mailbox, signals>>
    /\ InactivityFrame

\* checkForInactiveRoomCleanup's checkActiveParticipants settles: a count of
\* 0 arms the 60 s grace timer
InactivityCheckRead(j, ok) ==
    /\ inactivity[j] = "check"
    /\ inactivity' = [inactivity EXCEPT ![j] =
         IF CheckedCount(participants, now, ok) = 0 THEN "grace" ELSE "none"]
    /\ UNCHANGED <<roomExists, participants, mailbox, signals>>
    /\ InactivityFrame

\* the grace timer fires and its callback starts the re-check of
\* this.currentRoomId, which is null once leaveRoom has ended: the re-check
\* and the cleanup then address no room
GraceElapsed(j) ==
    /\ inactivity[j] = "grace"
    /\ inactivity' = [inactivity EXCEPT ![j] =
         IF roomTask[j] \in {"idle", "error", "full"} THEN "none" ELSE "recheck"]
    /\ UNCHANGED <<roomExists, participants, mailbox, signals>>
    /\ InactivityFrame

\* the re-check's checkActiveParticipants settles: a count of 0 starts
\* cleanupRoomCompletely
InactivityRecheckRead(j, ok) ==
    /\ inactivity[j] = "recheck"
    /\ inactivity' = [inactivity EXCEPT ![j] =
         IF CheckedCount(participants, now, ok) = 0 THEN "cleanMessages" ELSE "none"]
    /\ UNCHANGED <<roomExists, participants, mailbox, signals>>
    /\ InactivityFrame

\* cleanupRoomCompletely called by the grace timer: the three removes settle
\* one after the other; a rejection ends the cleanup in its catch block
InactivityCleanup(j, acc) ==
    /\ inactivity[j] \in {"cleanMessages", "cleanSignaling", "cleanRoom"}
    /\ mailbox' = IF acc /\ inactivity[j] = "cleanMessages" THEN {} ELSE mailbox
    /\ signals' = IF acc /\ inactivity[j] = "cleanSignaling" THEN {} ELSE signals
    /\ roomExists' = IF acc /\ inactivity[j] = "cleanRoom" THEN FALSE ELSE roomExists
    /\ participants' = IF acc /\ inactivity[j] = "cleanRoom"
                       THEN [k \in Joiners |-> NoParticipant] ELSE participants
    /\ inactivity' = [inactivity EXCEPT ![j] =
         IF ~acc THEN "none"
         ELSE IF @ = "cleanMessages" THEN "cleanSignaling"
         ELSE IF @ = "cleanSignaling" THEN "cleanRoom" ELSE "none"]
    /\ InactivityFrame
\* a participant in the room stores a chat record (storeOfflineMessage)
MemberStores(j) ==
    /\ roomTask[j] = "in_room"
    /\ mailbox = {}
    /\ mailbox' = StoreSet(mailbox,
         [Payload(<<"msg", 1>>, "encrypted_chat", j, now) EXCEPT !.ttl = StoreTtl(now)])
    /\ UNCHANGED <<roomVars, signals>>
    /\ RoomFrame

\* a participant in the room writes a handshake record (sendIceCandidate)
MemberSignals(j) ==
    /\ roomTask[j] = "in_room"
    /\ Cardinality(signals) < MaxRecords - 1
    /\ signals' = signals \cup
         {SignalRecord("candidate", j, now, Cardinality(signals) + 1)}
    /\ UNCHANGED <<roomVars, mailbox>>
    /\ RoomFrame

\* ===================================================================
\* SpecMsg: both participants have joined the room (X created it, Y
\* joined as responder), their MessageManager and WebRTCSecrets are
\* constructed and initialized, nothing has been sent.
\* ===================================================================
\* what the constructors leave in the chat and secret managers, the store
\* and the channels
InitChat ==
    /\ now = 0
    /\ mailbox = {}
    /\ chan = [p \in Peers |-> <<>>]
    /\ isWebRTCConnected = [p \in Peers |-> FALSE]
    /\ deliveredMessages = [p \in Peers |-> {}]
    /\ processedSignals = [p \in Peers |-> {}]
    /\ secretMessageIds = [p \in Peers |-> {}]
    /\ secretTimers = [p \in Peers |-> {}]
    /\ tasks = {}
    /\ loadQ = [p \in Peers |-> [stage |-> "idle", queue |-> <<>>]]
    /\ nextMsg = 0
    /\ nextSecret = 0
    /\ sendLog = [i \in MsgIds |-> NoLog]
    /\ secretLog = {}
    /\ ui = [p \in Peers |-> [i \in AllIds |-> 0]]
    /\ uiErr = [p \in Peers |-> {}]
    /\ statusTimers = [p \in Peers |-> 0]
    /\ lastCall = [p \in Peers |-> NoCall]
    /\ nextInput = 0
    /\ sessionLog = [p \in Peers |-> <<>>]
    /\ iceCandidateBuffer = [p \in Peers |-> <<>>]
    /\ remoteDescription = [p \in Peers |-> NoDesc]
    /\ rtcTasks = {}
    /\ iceConnectionState = [p \in Peers |-> "new"]
    /\ iceTimeoutId = [p \in Peers |-> "none"]
    /\ localStream = [p \in Peers |-> "null"]
    /\ closeLog = [p \in Peers |-> "none"]
    /\ restartCall = [p \in Peers |-> "none"]

InitMsg ==
    /\ InitChat
    /\ dataChannel = [p \in Peers |-> IF p = Initiator THEN "connecting" ELSE "none"]
    /\ peerConnection = [p \in Peers |-> "live"]
    /\ signalingState = [p \in Peers |->
           IF p = Initiator THEN "have-local-offer" ELSE "stable"]
    /\ connectionStatus = [p \in Peers |-> "in_room"]
    /\ sessions = Cardinality(Peers)
    /\ signals = {SignalRecord("offer", Initiator, 0, 1)}
    /\ sessionId = [p \in Peers |-> p]
    /\ listening = [p \in Peers |-> TRUE]
    /\ deliveries = 0
    /\ forwards = [p \in Peers |-> [k \in RecordKeys |-> 0]]
    /\ roomExists = TRUE
    /\ participants = [j \in Joiners |->
           IF j \in Peers
           THEN [present |-> TRUE, active |-> TRUE, joined |-> 0,
                 lastSeen |-> 0, left |-> NoTtl]
           ELSE NoParticipant]
    /\ roomTask = [j \in Joiners |-> IF j \in Peers THEN "in_room" ELSE "idle"]
    /\ inactivity = [j \in Joiners |-> "none"]

NextMsgChat ==
    \/ \E p \in Peers : SendMessage(p)
    \/ \E t \in tasks, ok \in BOOLEAN : SendEncrypted(t, ok)
    \/ \E t \in tasks, acc \in BOOLEAN : SendStored(t, acc)
    \/ \E p \in Peers, id \in MsgIds : ListenerDeliver(p, id)
    \/ \E t \in tasks : HimFinish(t)
    \/ \E p \in Peers : LoadOfflineMessages(p)
    \/ \E p \in Peers : LoadSnapshot(p)
    \/ \E p \in Peers : LoadNext(p)
    \/ \E p \in Peers : ChannelReceive(p)

NextMsg ==
    \/ /\ NextMsgChat
       /\ UNCHANGED <<rtcVars, sigVars, roomVars, iceVars>>
    \/ \E p \in Peers : DataChannelOpen(p)
    \/ \E p \in Peers : DataChannelClose(p)
    \/ \E p \in Peers, s \in {"connected", "disconnected"} : SessionStateEvent(p, s)

SpecMsg == InitMsg /\ [][NextMsg]_vars

\* ===================================================================
\* SpecSend: the sending side alone, with the clock running
\* ===================================================================
NextSendChat ==
    \/ \E p \in Peers : SendMessage(p)
    \/ \E t \in tasks, ok \in BOOLEAN : SendEncrypted(t, ok)
    \/ \E t \in tasks, acc \in BOOLEAN : SendStored(t, acc)
    \/ \E d \in {1, MESSAGE_TTL} : Tick(d)

NextSend ==
    \/ /\ NextSendChat
       /\ UNCHANGED <<rtcVars, sigVars, roomVars, iceVars>>
    \/ \E p \in Peers : DataChannelOpen(p)
    \/ \E p \in Peers : DataChannelClose(p)
    \/ \E p \in Peers, s \in {"connected", "disconnected"} : SessionStateEvent(p, s)

SpecSend == InitMsg /\ [][NextSend]_vars

\* ===================================================================
\* SpecSecret: the same initial state; secret messages and chat messages
\* share the data channel and the app's routing of what arrives on it.
\* Either participant sends secrets; the chat traffic is the initiator's and
\* the undecryptable secret is one the responder receives.
\* ===================================================================
NextSecretChat ==
    \/ \E p \in Peers : SendWebRTCSecret(p)
    \/ \E t \in tasks, ok \in BOOLEAN : SecretEncrypted(t, ok)
    \/ \E t \in tasks : SecretFinish(t)
    \/ \E p \in Peers, id \in SecretIds : SecretExpire(p, id)
    \/ UndecryptableSecret(Other(Initiator))
    \/ SendMessage(Initiator)
    \/ \E t \in tasks, ok \in BOOLEAN : SendEncrypted(t, ok)
    \/ \E t \in tasks, acc \in BOOLEAN : SendStored(t, acc)
    \/ \E t \in tasks : HimFinish(t)
    \/ \E p \in Peers : ChannelReceive(p)

NextSecret ==
    \/ /\ NextSecretChat
       /\ UNCHANGED <<rtcVars, sigVars, roomVars, iceVars>>
    \/ \E p \in Peers : DataChannelOpen(p)
    \/ \E p \in Peers : DataChannelClose(p)

SpecSecret == InitMsg /\ [][NextSecret]_vars

\* ===================================================================
\* SpecRtc: one participant's page from load on: it joins (as initiator or
\* responder) and leaves, and the handshake listeners hand its callback
\* offers, answers and candidates in every order and form.
\* ===================================================================
Local == "X"

InitRtc ==
    /\ InitChat
    /\ dataChannel = [p \in Peers |-> "none"]
    /\ peerConnection = [p \in Peers |-> "null"]
    /\ signalingState = [p \in Peers |-> "closed"]
    /\ connectionStatus = [p \in Peers |-> "ready"]
    /\ sessions = 0
    /\ signals = {}
    /\ sessionId = [p \in Peers |-> NoPeer]
    /\ listening = [p \in Peers |-> FALSE]
    /\ deliveries = 0
    /\ forwards = [p \in Peers |-> [k \in RecordKeys |-> 0]]
    /\ roomExists = FALSE
    /\ participants = [j \in Joiners |-> NoParticipant]
    /\ roomTask = [j \in Joiners |-> "idle"]
    /\ inactivity = [j \in Joiners |-> "none"]

\* the channel opens once the handshake has been applied on this side
ChannelOpens(p) ==
    /\ peerConnection[p] = "live"
    /\ remoteDescription[p] # NoDesc
    /\ signalingState[p] = "stable"
    /\ DataChannelOpen(p)

\* a handshake record reaches the callback through the attached listeners
CallbackInvoked(p, type, form) ==
    /\ listening[p]
    /\ OnSignalingMessage(p, type, form)
    /\ UNCHANGED <<msgVars, sigVars, roomVars, iceVars>>

NextRtc ==
    \/ \E init \in BOOLEAN : JoinRoom(Local, init)
    \/ \E t \in rtcTasks : OfferLocalSet(t)
    \/ \E f \in Forms : CallbackInvoked(Local, "offer", f)
    \/ \E t \in rtcTasks, rb \in BOOLEAN : RemoteOfferSettled(t, rb)
    \/ \E t \in rtcTasks : LocalAnswerSet(t)
    \/ \E f \in Forms : CallbackInvoked(Local, "answer", f)
    \/ \E t \in rtcTasks : RemoteAnswerSettled(t)
    \/ \E f \in Forms : CallbackInvoked(Local, "candidate", f)
    \/ \E t \in rtcTasks : DrainNext(t)
    \/ \E last \in BOOLEAN : LeaveRoom(Local, last)
    \/ StatusReset(Local)
    \/ ChannelOpens(Local)
    \/ DataChannelClose(Local)

SpecRtc == InitRtc /\ [][NextRtc]_vars

\* ===================================================================
\* SpecSig: one participant's page and the handshake records of its room:
\* it joins and leaves, it and another participant write records, the store
\* fires listener events for them, and the clock runs.
\* ===================================================================
NextSig ==
    \/ \E init \in BOOLEAN : JoinRoom(Local, init)
    \/ \E t \in rtcTasks : OfferLocalSet(t)
    \/ \E last \in BOOLEAN : LeaveRoom(Local, last)
    \/ \E kind \in {"offer", "answer", "candidate"} : RemoteWrites(Local, kind)
    \/ LocalCandidate(Local)
    \/ \E r \in signals : SignalDelivered(Local, r)
    \/ \E t \in rtcTasks, rb \in BOOLEAN : RemoteOfferSettled(t, rb)
    \/ \E t \in rtcTasks : LocalAnswerSet(t)
    \/ \E t \in rtcTasks : RemoteAnswerSettled(t)
    \/ \E t \in rtcTasks : DrainNext(t)
    \/ StatusReset(Local)
    \/ Tick(1) /\ UNCHANGED <<rtcVars, sigVars, roomVars, iceVars>>

SpecSig == InitRtc /\ [][NextSig]_vars

\* ===================================================================
\* SpecRoom: four pages and one room of the store. Each page joins (reads,
\* then the update) and sends heartbeats; a page whose join failed does not
\* try again. The page Local also leaves (mark, read, cleanup) and may join
\* again; another page stores records. Store reads and writes may fail and
\* the clock may run on by a liveness window.
\* ===================================================================
NextRoom ==
    \/ \E j \in Joiners, ok \in BOOLEAN : RoomExistsRead(j, ok)
    \/ \E j \in Joiners, ok \in BOOLEAN : AppActiveRead(j, ok)
    \/ \E j \in Joiners, ok \in BOOLEAN : JoinCheckRead(j, ok)
    \/ \E j \in Joiners, acc \in BOOLEAN : RoomUpdate(j, acc)
    \/ \E j \in Joiners : UpdateActivity(j)
    \/ WindowPasses
    \/ MemberStores(Other(Local))
    \/ MemberSignals(Other(Local))
    \/ LeaveMarked(Local)
    \/ \E ok \in BOOLEAN : LeaveCheckRead(Local, ok)
    \/ \E acc \in BOOLEAN : CleanMessages(Local, acc)
    \/ \E acc \in BOOLEAN : CleanSignaling(Local, acc)
    \/ \E acc \in BOOLEAN : CleanRoom(Local, acc)

SpecRoom == InitRtc /\ [][NextRoom]_vars

\* a step of the chat components leaves the session, the handshake records
\* and the room membership alone
ChatOnly == UNCHANGED <<rtcVars, sigVars, roomVars, iceVars>>

\* ===================================================================
\* SpecChannel: the callers of webrtc.sendMessage. Either participant sends
\* secrets and the initiator chat messages while the channel opens and
\* closes under them; what was put on the channel stays there.
\* ===================================================================
NextChannel ==
    \/ \E p \in Peers : SendWebRTCSecret(p) /\ ChatOnly
    \/ \E t \in tasks, ok \in BOOLEAN : SecretEncrypted(t, ok) /\ ChatOnly
    \/ SendMessage(Initiator) /\ ChatOnly
    \/ \E t \in tasks, ok \in BOOLEAN : SendEncrypted(t, ok) /\ ChatOnly
    \/ \E t \in tasks, acc \in BOOLEAN : SendStored(t, acc) /\ ChatOnly
    \/ \E p \in Peers : DataChannelOpen(p)
    \/ \E p \in Peers : DataChannelClose(p)

SpecChannel == InitMsg /\ [][NextChannel]_vars

\* ===================================================================
\* SpecIce: one page's transport manager. It joins and leaves, its session
\* reports connectivity states in every order, the channel opens and
\* closes, candidates arrive before any description, media is started and
\* ended, and close() is called at any moment, any number of times.
\* ===================================================================
\* channel.onopen of the live session's channel
LiveChannelOpens(p) ==
    /\ peerConnection[p] = "live"
    /\ DataChannelOpen(p)

NextIce ==
    \/ \E init \in BOOLEAN : JoinRoom(Local, init)
    \/ \E f \in Forms : CallbackInvoked(Local, "candidate", f)
    \/ LiveChannelOpens(Local)
    \/ DataChannelClose(Local)
    \/ \E c \in ConnStates : OnConnectionStateChange(Local, c)
    \/ \E i \in IceStates, sup \in BOOLEAN : OnIceConnectionStateChange(Local, i, sup)
    \/ \E sup \in BOOLEAN : IceTimeout(Local, sup)
    \/ StartMediaCall(Local)
    \/ \E t \in rtcTasks, g \in BOOLEAN : MediaSettled(t, g)
    \/ EndCall(Local)
    \/ WebRTCClose(Local)
    \/ \E last \in BOOLEAN : LeaveRoom(Local, last)

SpecIce == InitRtc /\ [][NextIce]_vars

\* ===================================================================
\* SpecHandshake: an initiator that has joined and written its offer and a
\* responder that has joined the same room. The store fires each listener
\* once for each record of the other participant, every suspended call
\* resumes, and the channel opens on a side once both sessions hold each
\* other's description (no candidate is buffered: connectivity is the
\* network's); meanwhile the initiator sends chat messages and the clock
\* runs. Every step that stays possible is eventually taken.
\* ===================================================================
\* the store's child-added event for a record the listener has not seen
FirstDelivery(p, r) ==
    /\ forwards[p][r.key] = 0
    /\ ListenerPasses(p, r)
    /\ SignalDelivered(p, r)

\* both sessions have applied the other's description
Negotiated ==
    \A q \in Peers :
        /\ peerConnection[q] = "live"
        /\ remoteDescription[q] # NoDesc
        /\ signalingState[q] = "stable"

\* channel.onopen on one side of a negotiated pair
PairChannelOpens(p) ==
    /\ Negotiated
    /\ DataChannelOpen(p)

NextHandshake ==
    \/ \E p \in Peers : \E r \in signals : FirstDelivery(p, r)
    \/ \E t \in rtcTasks, rb \in BOOLEAN : RemoteOfferSettled(t, rb)
    \/ \E t \in rtcTasks : LocalAnswerSet(t)
    \/ \E t \in rtcTasks : RemoteAnswerSettled(t)
    \/ \E p \in Peers : PairChannelOpens(p)
    \/ SendMessage(Initiator) /\ ChatOnly
    \/ \E t \in tasks, ok \in BOOLEAN : SendEncrypted(t, ok) /\ ChatOnly
    \/ \E t \in tasks, acc \in BOOLEAN : SendStored(t, acc) /\ ChatOnly
    \/ Tick(1) /\ ChatOnly

SpecHandshake == InitMsg /\ [][NextHandshake]_vars /\ WF_vars(NextHandshake)

\* ===================================================================
\* SpecReconnect: the pair of SpecHandshake once more, now with a network
\* that changes the sessions' connectivity states and closes the channel,
\* and with the connectivity timers. Every step that stays possible is
\* eventually taken.
\* ===================================================================
NextReconnect ==
    \/ \E p \in Peers : \E r \in signals : FirstDelivery(p, r)
    \/ \E t \in rtcTasks, rb \in BOOLEAN : RemoteOfferSettled(t, rb)
    \/ \E t \in rtcTasks : LocalAnswerSet(t)
    \/ \E t \in rtcTasks : RemoteAnswerSettled(t)
    \/ \E p \in Peers : PairChannelOpens(p)
    \/ \E p \in Peers : DataChannelClose(p)
    \/ \E i \in IceStates, sup \in BOOLEAN : OnIceConnectionStateChange(Initiator, i, sup)
    \/ \E sup \in BOOLEAN : IceTimeout(Initiator, sup)

SpecReconnect == InitMsg /\ [][NextReconnect]_vars /\ WF_vars(NextReconnect)

\* ===================================================================
\* SpecOffline: messages stored for a recipient who is not in the room yet.
\* The initiator sends while the clock runs; once every message it sent is
\* settled the responder joins: its mailbox listener is attached and
\* joinRoom calls loadOfflineMessages.
\* ===================================================================
\* every message of the initiator has been sent and its store write settled
AllSettled ==
    /\ nextMsg = MaxMsgs
    /\ \A t \in tasks : t.op \notin {"send_encrypt", "send_store"}

NextOffline ==
    \/ SendMessage(Initiator) /\ ChatOnly
    \/ \E t \in tasks, ok \in BOOLEAN : SendEncrypted(t, ok) /\ ChatOnly
    \/ \E t \in tasks, acc \in BOOLEAN : SendStored(t, acc) /\ ChatOnly
    \/ \E d \in {1, MESSAGE_TTL} : Tick(d) /\ ChatOnly
    \/ \E id \in MsgIds : AllSettled /\ ListenerDeliver(Other(Initiator), id) /\ ChatOnly
    \/ AllSettled /\ LoadOfflineMessages(Other(Initiator)) /\ ChatOnly
    \/ LoadSnapshot(Other(Initiator)) /\ ChatOnly
    \/ LoadNext(Other(Initiator)) /\ ChatOnly
    \/ \E t \in tasks : HimFinish(t) /\ ChatOnly

SpecOffline == InitMsg /\ [][NextOffline]_vars

\* ===================================================================
\* SpecMailbox: the life of a stored chat record. The initiator sends and
\* sweeps, the responder receives by the listener and the offline load, the
\* clock runs, and the participants leave the room, the responder first and
\* the initiator once the responder's leave is over.
\* ===================================================================
\* leaveRoom of the initiator, called once the responder has left
LastLeaveMarked(p) ==
    /\ roomTask[Other(p)] = "idle"
    /\ LeaveMarked(p)

NextMailbox ==
    \/ SendMessage(Initiator) /\ ChatOnly
    \/ \E t \in tasks, ok \in BOOLEAN : SendEncrypted(t, ok) /\ ChatOnly
    \/ \E t \in tasks, acc \in BOOLEAN : SendStored(t, acc) /\ ChatOnly
    \/ \E d \in {1, MESSAGE_TTL} : Tick(d) /\ ChatOnly
    \/ \E id \in MsgIds : ListenerDeliver(Other(Initiator), id) /\ ChatOnly
    \/ \E t \in tasks : HimFinish(t) /\ ChatOnly
    \/ CleanupExpiredMessages(Initiator) /\ ChatOnly
    \/ \E t \in tasks : CleanupSnapshot(t) /\ ChatOnly
    \/ \E t \in tasks, acc \in BOOLEAN : CleanupRemoved(t, acc) /\ ChatOnly
    \/ LeaveMarked(Other(Initiator))
    \/ LastLeaveMarked(Initiator)
    \/ \E p \in Peers, ok \in BOOLEAN : LeaveCheckRead(p, ok)
    \/ \E p \in Peers, acc \in BOOLEAN : CleanMessages(p, acc)
    \/ \E p \in Peers, acc \in BOOLEAN : CleanSignaling(p, acc)
    \/ \E p \in Peers, acc \in BOOLEAN : CleanRoom(p, acc)

SpecMailbox == InitMsg /\ [][NextMailbox]_vars

\* ===================================================================
\* SpecStore: the chat mailbox over time. The initiator sends chat messages
\* and runs the expiry sweep; the responder receives by the mailbox
\* listener and the offline load; the clock runs by a millisecond or by a
\* whole TTL.
\* ===================================================================
NextStore ==
    \/ SendMessage(Initiator) /\ ChatOnly
    \/ \E t \in tasks, ok \in BOOLEAN : SendEncrypted(t, ok) /\ ChatOnly
    \/ \E t \in tasks, acc \in BOOLEAN : SendStored(t, acc) /\ ChatOnly
    \/ \E d \in {1, MESSAGE_TTL} : Tick(d) /\ ChatOnly
    \/ \E id \in MsgIds : ListenerDeliver(Other(Initiator), id) /\ ChatOnly
    \/ LoadOfflineMessages(Other(Initiator)) /\ ChatOnly
    \/ LoadSnapshot(Other(Initiator)) /\ ChatOnly
    \/ LoadNext(Other(Initiator)) /\ ChatOnly
    \/ \E t \in tasks : HimFinish(t) /\ ChatOnly
    \/ CleanupExpiredMessages(Initiator) /\ ChatOnly
    \/ \E t \in tasks : CleanupSnapshot(t) /\ ChatOnly
    \/ \E t \in tasks, acc \in BOOLEAN : CleanupRemoved(t, acc) /\ ChatOnly

SpecStore == InitMsg /\ [][NextStore]_vars

\* ===================================================================
\* SpecDeliver: what the responder does with the chat payloads that reach
\* it by the mailbox listener, the offline load and the data channel, some
\* of which the room key does not decrypt.
\* ===================================================================
NextDeliver ==
    \/ SendMessage(Initiator) /\ ChatOnly
    \/ \E t \in tasks, ok \in BOOLEAN : SendEncrypted(t, ok) /\ ChatOnly
    \/ \E t \in tasks, acc \in BOOLEAN : SendStored(t, acc) /\ ChatOnly
    \/ \E path \in {"store", "channel"} : UndecryptableChat(Other(Initiator), path) /\ ChatOnly
    \/ \E id \in MsgIds : ListenerDeliver(Other(Initiator), id) /\ ChatOnly
    \/ LoadOfflineMessages(Other(Initiator)) /\ ChatOnly
    \/ LoadSnapshot(Other(Initiator)) /\ ChatOnly
    \/ LoadNext(Other(Initiator)) /\ ChatOnly
    \/ \E t \in tasks : HimFinish(t) /\ ChatOnly
    \/ ChannelReceive(Other(Initiator)) /\ ChatOnly
    \/ \E p \in Peers : DataChannelOpen(p)

SpecDeliver == InitMsg /\ [][NextDeliver]_vars

\* ===================================================================
\* Properties
\* ===================================================================

\* C1: for every chat message id and every recipient, over any interleaving
\* of the deliveries of that id to handleIncomingMessage (direct channel,
\* mailbox listener, offline load), the UI callback onMessageReceived runs
\* for the id exactly once: never twice, and once as soon as the id is in
\* the delivered set.
C1_SurfacedExactlyOnce ==
    \A p \in Peers : \A id \in MsgIds :
        /\ ui[p][id] <= 1
        /\ (id \in deliveredMessages[p] => ui[p][id] = 1)

\* C7: every sendMessage call that got past the encryption has issued the
\* store write of its message with ttl = time of the write + 24 h, whatever
\* the direct attempt did (not attempted, sent, failed); a write the store
\* accepted left exactly one record under the message id, with that ttl.
C7_StoreWriteAlways ==
    \A id \in MsgIds :
        LET l == sendLog[id] IN
        /\ (l.direct # "none") <=> (l.store # "none")
        /\ l.store # "none" => l.ttl = l.issuedAt + MESSAGE_TTL
        /\ l.store = "pending" =>
              \E t \in tasks : /\ t.op = "send_store" /\ t.msg.id = id
                               /\ t.msg.ttl = l.issuedAt + MESSAGE_TTL
        /\ l.store = "ok" =>
              /\ Cardinality({r \in mailbox : r.id = id}) = 1
              /\ RecordOf(id).ttl = l.issuedAt + MESSAGE_TTL
              /\ RecordOf(id).sender = l.sender

\* C7 witness: a message whose direct send failed, written at a time other
\* than 0, is in the mailbox, and so is one whose direct send succeeded or
\* was not attempted
C7_Witness ==
    \E id \in MsgIds :
        /\ sendLog[id].direct = "failed"
        /\ sendLog[id].store = "ok"
        /\ sendLog[id].issuedAt > 0
        /\ HasRecord(id)

\* C8: sendMessage returns true exactly when one of the two paths accepted
\* the message: the direct send succeeded, or the store write succeeded.
C8_SuccessIfEitherPath ==
    \A id \in MsgIds :
        LET l == sendLog[id] IN
        l.result \in {"true", "false"} =>
            ((l.result = "true") <=> (l.direct = "sent" \/ l.store = "ok"))

\* C9: a sendWebRTCSecret call made while the data channel is absent or not
\* open fails with an error, puts nothing on the channel, writes nothing to
\* the store and leaves nothing suspended.
C9_SecretNotReadyFails ==
    [][\A p \in Peers :
          (SendWebRTCSecret(p) /\ dataChannel[p] # "open") =>
              /\ [p |-> p, id |-> <<"secret", 0>>, res |-> "not_ready"] \in secretLog'
              /\ chan' = chan
              /\ mailbox' = mailbox
              /\ tasks' = tasks
              /\ nextSecret' = nextSecret]_vars

\* C9 witness: the call was made with the channel absent and with the
\* channel closed
C9_Witness ==
    \E p, q \in Peers :
        /\ [p |-> p, id |-> <<"secret", 0>>, res |-> "not_ready"] \in secretLog
        /\ dataChannel[p] = "none"
        /\ [p |-> q, id |-> <<"secret", 0>>, res |-> "not_ready"] \in secretLog
        /\ dataChannel[q] = "closed"

\* C10: the store never holds a record under a secret message id, and no
\* store write for one is in flight.
C10_NoSecretInStore ==
    /\ \A r \in mailbox : r.id \notin SecretIds /\ r.type # "webrtc_secret"
    /\ \A t \in tasks : t.op = "send_store" => t.msg.id \notin SecretIds

\* C10 witness: a secret was sent over the open channel, surfaced to the
\* receiver and forgotten again after its timer, while the mailbox holds a
\* chat record
C10_Witness ==
    \E p \in Peers : \E id \in SecretIds :
        /\ [p |-> Other(p), id |-> id, res |-> "sent"] \in secretLog
        /\ ui[p][id] = 1
        /\ id \notin secretMessageIds[p]
        /\ mailbox # {}

\* The ids of the candidates in a session log, in the order handed over
IsCandidate(e) == e[1] = "candidate"
IsDescription(e) == e[1] \in {"offer", "answer"}
Draining(p) == \E t \in rtcTasks : t.peer = p /\ t.op \in {"drainAnswer", "drainOffer"}
HandedOver(p, c) ==
    /\ Len(sessionLog'[p]) = Len(sessionLog[p]) + 1
       \/ Len(sessionLog'[p]) = Len(sessionLog[p]) + 2
    /\ sessionLog'[p][Len(sessionLog'[p])] = <<"candidate", c>>

\* C2 as claimed: a well-formed candidate passed to addIceCandidate of a
\* session before a remote description is applied is never dropped: it goes
\* into the buffer, and a candidate in the buffer stays there until it is
\* handed to the session.
C2_NeverDropped ==
    [][\A p \in Peers :
         /\ (lastCall'[p] # lastCall[p] /\ lastCall'[p].kind = "candidate"
               /\ lastCall'[p].form = "ok" /\ peerConnection[p] = "live"
               /\ remoteDescription[p] = NoDesc)
            => \E i \in DOMAIN iceCandidateBuffer'[p] :
                   iceCandidateBuffer'[p][i] = lastCall'[p].id
         /\ \A i \in DOMAIN iceCandidateBuffer[p] :
              LET c == iceCandidateBuffer[p][i] IN
              \/ \E j \in DOMAIN iceCandidateBuffer'[p] : iceCandidateBuffer'[p][j] = c
              \/ HandedOver(p, c)]_vars

\* C2 (amended): while the session exists, a well-formed candidate passed to
\* addIceCandidate before a remote description is applied is appended to the
\* buffer and not given to the session; the session gets a candidate only
\* after a description; a buffered candidate leaves the buffer only from
\* its head, to the session, once the remote description is set, or when
\* close() empties the buffer; the buffer is in arrival order; and whenever
\* the remote description is set and the buffer is not empty the drain that
\* the setting of the description started is still running.
C2_BufferedInOrder ==
    /\ [](\A p \in Peers :
            /\ \A i \in DOMAIN sessionLog[p] :
                 IsCandidate(sessionLog[p][i])
                 => \E j \in 1..(i - 1) : IsDescription(sessionLog[p][j])
            /\ \A i, j \in DOMAIN iceCandidateBuffer[p] :
                 i < j => iceCandidateBuffer[p][i] < iceCandidateBuffer[p][j]
            /\ (remoteDescription[p] # NoDesc /\ iceCandidateBuffer[p] # <<>>)
               => Draining(p))
    /\ [][\A p \in Peers :
            /\ (lastCall'[p] # lastCall[p] /\ lastCall'[p].kind = "candidate"
                  /\ lastCall'[p].form = "ok" /\ peerConnection[p] = "live"
                  /\ remoteDescription[p] = NoDesc)
               => /\ iceCandidateBuffer'[p] =
                        Append(iceCandidateBuffer[p], lastCall'[p].id)
                  /\ sessionLog'[p] = sessionLog[p]
            /\ \A i \in DOMAIN iceCandidateBuffer[p] :
                 LET c == iceCandidateBuffer[p][i] IN
                 \/ \E j \in DOMAIN iceCandidateBuffer'[p] : iceCandidateBuffer'[p][j] = c
                 \/ i = 1 /\ remoteDescription'[p] # NoDesc /\ HandedOver(p, c)
                 \/ peerConnection'[p] = "null" /\ iceCandidateBuffer'[p] = <<>>]_vars

\* two candidates that arrived before the answer were buffered and then
\* handed to the session right after it, in their order
C2_Witness ==
    /\ Len(sessionLog[Local]) >= 3
    /\ IsDescription(sessionLog[Local][1])
    /\ IsCandidate(sessionLog[Local][2])
    /\ IsCandidate(sessionLog[Local][3])
    /\ sessionLog[Local][2][2] < sessionLog[Local][3][2]
    /\ sessionLog[Local][3][2] < sessionLog[Local][1][2]

C4_OneAnswerApplied ==
    [][\A p \in Peers :
         /\ Cardinality({i \in DOMAIN sessionLog'[p] :
                            sessionLog'[p][i][1] = "answer"}) <= 1
         /\ (lastCall'[p] # lastCall[p] /\ lastCall'[p].kind = "answer"
               /\ lastCall'[p].form = "ok")
            => statusTimers'[p] = statusTimers[p]
         /\ \A t \in rtcTasks :
              (t.peer = p /\ t.op = "srdAnswer" /\ t \notin rtcTasks'
                 /\ peerConnection'[p] = "live"
                 /\ \A i \in DOMAIN sessionLog'[p] : sessionLog'[p][i][1] # "offer")
              => /\ statusTimers'[p] = statusTimers[p]
                 /\ connectionStatus'[p] = connectionStatus[p]]_vars

\* C5: a participant never receives its own record back as an inbound
\* event: no offer, answer or candidate whose sender is the local
\* participant is ever forwarded to that participant's onSignalingMessage,
\* and onMessageReceived is never invoked for a chat record the local
\* participant sent.
C5_NoOwnRecordForwarded ==
    \A p \in Peers :
        /\ \A r \in signals : r.sender = p => forwards[p][r.key] = 0
        /\ \A id \in MsgIds : sendLog[id].sender = p => ui[p][id] = 0

\* C6: while the participant is in the room, no handshake record has been
\* forwarded to onSignalingMessage more than once since the join, however
\* often the store delivered it.
C6_ForwardedAtMostOnce ==
    \A p \in Peers :
        sessionId[p] # NoPeer => \A k \in RecordKeys : forwards[p][k] <= 1

\* C11: a joinRoom whose capacity check is made while the room has 3 (or
\* more) active participants fails with the capacity error and writes
\* nothing to the store.
C11_FullRoomRefused ==
    [][\A j \in Joiners :
          (/\ roomTask[j] = "joinCheck"
           /\ roomTask'[j] # "joinCheck"
           /\ ActiveCount(participants, now) >= MAX_PARTICIPANTS)
          => /\ roomTask'[j] = "full"
             /\ participants' = participants
             /\ roomExists' = roomExists]_vars

\* C12: the number of active participant records of the room never
\* exceeds 3.
C12_AtMostThreeActive == ActiveCount(participants, now) <= MAX_PARTICIPANTS

\* C20: leaveRoom marks the leaver's record inactive with a left timestamp
\* and touches nothing else; a later step of the leave changes the store
\* only while no participant is active, and a leave that ends with no
\* participant active has deleted the chat mailbox, the handshake records
\* and the room.
C20_LeaveCleansOnlyWhenLast ==
    [][\A j \in Joiners :
          /\ (roomTask[j] = "in_room" /\ roomTask'[j] = "leaveCheck")
             => /\ participants'[j].active = FALSE
                /\ participants'[j].left = now
                /\ \A k \in Joiners \ {j} : participants'[k] = participants[k]
                /\ mailbox' = mailbox /\ signals' = signals
          /\ (/\ roomTask[j] \in {"leaveCheck", "cleanMessages", "cleanSignaling", "cleanRoom"}
              /\ roomTask'[j] # roomTask[j])
             => IF ActiveCount(participants, now) = 0
                THEN roomTask'[j] = "idle"
                        => mailbox' = {} /\ signals' = {} /\ ~roomExists'
                ELSE /\ mailbox' = mailbox /\ signals' = signals
                     /\ participants' = participants
                     /\ roomExists' = roomExists]_vars

C14_SweepDeletesExpired ==
    [][\A t \in tasks :
          /\ (t.op = "cleanup_get" /\ t \notin tasks')
             => /\ {u.msg : u \in {x \in tasks' \ tasks : x.op = "cleanup_remove"}}
                     = {r \in mailbox : r.ttl < now}
                /\ mailbox' = mailbox
          /\ (t.op = "cleanup_remove" /\ t \notin tasks')
             => /\ t.msg.ttl < now
                /\ mailbox' \in {mailbox, {r \in mailbox : r.id # t.msg.id}}
                /\ \A r \in mailbox : ~(r.ttl < now) => r \in mailbox']_vars

\* C14 witness: a record that was stored, expired and never delivered has
\* been deleted by the sweep
C14_Witness ==
    \E id \in MsgIds :
        /\ sendLog[id].store = "ok"
        /\ sendLog[id].ttl < now
        /\ ~HasRecord(id)
        /\ ui[Other(Initiator)][id] = 0
        /\ id \notin deliveredMessages[Other(Initiator)]
        /\ ~\E t \in tasks : t.src = "cleanup"

\* C15: when a handleIncomingMessage call ends, the store is unchanged if
\* the message came over the direct channel, and the only change it ever
\* makes is the removal of the record of a message that came from the store
\* and was surfaced.
C15_DirectPathLeavesStore ==
    [][\A t \in tasks :
          (t.op = "him" /\ t \notin tasks')
          => /\ t.src = "webrtc" => mailbox' = mailbox
             /\ mailbox' # mailbox
                => /\ t.src = "firebase"
                   /\ ui'[t.p][t.msg.id] = ui[t.p][t.msg.id] + 1
                   /\ mailbox' = StoreRemove(mailbox, t.msg.id)]_vars

\* C15 witness: a message that arrived over the direct channel has been
\* surfaced and its record is in the mailbox
C15_Witness ==
    \E id \in MsgIds :
        /\ ui[Other(Initiator)][id] = 1
        /\ id \in deliveredMessages[Other(Initiator)]
        /\ HasRecord(id)
        /\ sendLog[id].direct = "sent"
        /\ ~\E t \in tasks : t.op = "him"

\* C16: a handleIncomingMessage call whose decryption fails still invokes
\* the UI callback for that message (the "failed to decrypt" placeholder).
C16_DecryptFailureSurfaced ==
    [][\A t \in tasks :
          (t.op = "him" /\ t \notin tasks' /\ ~Decrypts(t.msg))
          => \/ t.msg.id \in uiErr'[t.p]
             \/ ui'[t.p][t.msg.id] = ui[t.p][t.msg.id] + 1]_vars

\* C18: 'connected' is reported through onConnectionStateChange only when
\* the data channel is open: a connected or completed connectivity state of
\* the session while the channel is not open produces no such report.
C18_ConnectedOnlyWhenOpen ==
    [][\A p \in Peers :
          (connectionStatus'[p] = "connected" /\ connectionStatus[p] # "connected")
              => dataChannel'[p] = "open"]_vars

\* C19: close() is idempotent: every call leaves the connectivity timer
\* cleared, the candidate buffer empty, the channel and the session
\* discarded and the media stopped, a call made in that state changes
\* nothing, and with the session discarded no connectivity timer is pending,
\* so that no restart fires after it.
C19_CloseIdempotent ==
    [][\A p \in Peers :
          /\ WebRTCClose(p) => /\ ClosedState(p)'
                               /\ ClosedState(p) =>
                                     UNCHANGED <<msgVars, rtcVars, sigVars, roomVars,
                                                 iceConnectionState, iceTimeoutId,
                                                 localStream, restartCall>>
          /\ peerConnection'[p] = "null" => iceTimeoutId'[p] = "none"]_vars

\* C19 witness: close() found a pending timer, a buffered candidate, an open
\* channel, a session and running media, was called again on what it left,
\* and the manager is in the closed state
C19_Witness ==
    /\ closeLog[Local] = "again"
    /\ ClosedState(Local)
    /\ lastCall[Local].kind = "candidate"

\* the payload with this id is on a channel
OnChannel(ch, id) == \E q \in Peers : \E i \in 1..Len(ch[q]) : ch[q][i].id = id

\* C17: webrtc.sendMessage returns true only if the channel is open when it
\* is called, and false otherwise; a payload it returned false for is put on
\* no channel, then or later, and one it returned true for is put on the
\* channel within the call.
C17_SendOnlyWhenOpen ==
    [][/\ \A t \in tasks :
             (t.op = "secret_encrypt" /\ t \notin tasks') =>
                LET sent == [p |-> t.p, id |-> t.msg.id, res |-> "sent"]
                    failed == [p |-> t.p, id |-> t.msg.id, res |-> "send_failed"]
                IN /\ sent \in secretLog' => dataChannel[t.p] = "open"
                   /\ dataChannel[t.p] # "open" => failed \in secretLog'
                   /\ sent \in secretLog' <=> OnChannel(chan', t.msg.id)
                   /\ failed \in secretLog' => chan' = chan
       /\ \A e \in secretLog' : e.res = "send_failed" => ~OnChannel(chan', e.id)
       /\ \A id \in MsgIds :
             /\ (sendLog'[id].direct = "sent" /\ sendLog[id].direct # "sent")
                    => dataChannel[sendLog[id].sender] = "open"
             /\ sendLog'[id].direct \in {"failed", "skipped"} => ~OnChannel(chan', id)]_vars

\* C17 witness: a secret's send returned false on a closed channel, a chat
\* message's send returned true, and one payload is on the channel
C17_Witness ==
    \E p \in Peers : \E id \in SecretIds : \E m \in MsgIds :
        /\ [p |-> p, id |-> id, res |-> "send_failed"] \in secretLog
        /\ dataChannel[p] = "closed"
        /\ sendLog[m].direct = "sent"
        /\ OnChannel(chan, m)
        /\ ~OnChannel(chan, id)

\* the step is a recipient's markMessageAsDelivered of the record: a
\* handleIncomingMessage call for it, made for the store by another
\* participant than its sender, ends
RetrievedAndDeleted(r) ==
    \E t \in tasks \ tasks' :
        t.op = "him" /\ t.msg.id = r.id /\ t.src = "firebase" /\ t.p # r.sender

\* the step is the settling of cleanupRoomCompletely's removal of the mailbox
RoomCleanedUp ==
    \E j \in Joiners : roomTask[j] = "cleanMessages" /\ roomTask'[j] = "cleanSignaling"

C23_ReconnectsAfterChannelClose ==
    \A p \in Peers :
        (dataChannel[p] = "closed") ~> (dataChannel[p] = "open" /\ isWebRTCConnected[p])

\* C24: once the offline load of a recipient who joined after the messages
\* were stored is over and none of its calls is pending, every stored
\* message that has not expired has been surfaced to the recipient exactly
\* once and its record is deleted.
C24_OfflineMessageSurfacedOnce ==
    LET y == Other(Initiator) IN
    (/\ loadQ[y].stage = "done"
     /\ \A t \in tasks : t.p # y)
        => \A id \in MsgIds :
              (sendLog[id].store = "ok" /\ ~(sendLog[id].ttl < now))
                 => ui[y][id] = 1 /\ ~HasRecord(id)

\* C25: a handshake record written by another participant is forwarded to
\* onSignalingMessage when the store first delivers it, whatever other
\* records were forwarded before: the duplicate filter never takes a
\* record for another one.
C25_DistinctRecordsForwarded ==
    [][\A p \in Peers : \A r \in signals :
          (/\ SignalDelivered(p, r)
           /\ r.sender # sessionId[p]
           /\ forwards[p][r.key] = 0)
              => forwards'[p][r.key] = 1]_vars

\* the app's joinRoom settles the role: isInitiator = true goes straight to
\* the room update, isInitiator = false goes on to signaling.joinRoom's
\* capacity check
BecomesInitiator(j) ==
    roomTask[j] \in {"idle", "checkActive"} /\ roomTask'[j] = "update"
BecomesResponder(j) ==
    roomTask[j] = "checkActive" /\ roomTask'[j] = "joinCheck"

\* C26: a joining page becomes initiator exactly when, at its reads, the
\* room has no record or none of its participants is active; otherwise it
\* becomes responder.
C26_InitiatorIffRoomEmpty ==
    [][\A j \in Joiners :
          /\ BecomesInitiator(j)
                => (~roomExists \/ ActiveCount(participants, now) = 0)
          /\ BecomesResponder(j)
                => (roomExists /\ ActiveCount(participants, now) > 0)]_vars

\* the step of sendMessage that decides on the direct attempt for id
DecidesDirect(id) == sendLog[id].direct = "none" /\ sendLog'[id].direct # "none"

\* C27: sendMessage attempts the direct send whenever the data channel is
\* open when it decides, and never when the channel is not open.
C27_AttemptsWheneverOpen ==
    [][\A id \in MsgIds :
          DecidesDirect(id)
             => (sendLog'[id].direct # "skipped"
                    <=> dataChannel[sendLog[id].sender] = "open")]_vars

\* C27 (amended): sendMessage attempts the direct send exactly when the
\* last reported connection state is 'connected' and the data channel is
\* open; it never attempts it, and nothing is put on the channel, when the
\* channel is not open.
C27_AttemptsWhenConnectedAndOpen ==
    [][\A id \in MsgIds :
          DecidesDirect(id)
             => LET p == sendLog[id].sender IN
                /\ sendLog'[id].direct # "skipped"
                       <=> (isWebRTCConnected[p] /\ dataChannel[p] = "open")
                /\ dataChannel[p] # "open"
                       => (sendLog'[id].direct = "skipped" /\ chan' = chan)]_vars

C27_Witness ==
    \E id \in MsgIds :
        /\ sendLog[id].direct \in {"sent", "failed"}
        /\ sendLog[id].store = "pending"
        /\ DirectReady(sendLog[id].sender)

\* a step in which restartIce() is called for p
RestartInvoked(p) == restartCall'[p] # restartCall[p] /\ restartCall'[p] # "none"

\* a step in which p's pending connectivity timer fires
TimerFires(p) ==
    /\ iceTimeoutId[p] # "none" /\ iceTimeoutId'[p] = "none"
    /\ iceConnectionState'[p] = iceConnectionState[p]
    /\ dataChannel'[p] = dataChannel[p]
    /\ peerConnection'[p] = peerConnection[p]

\* C28: restartIce() is called at once when the connectivity state becomes
\* 'failed' and when the timer armed by 'checking' (30 s) or 'disconnected'
\* (10 s) fires; a change of the connectivity state cancels the pending
\* timer (and arms the new state's, if it has one), the opening of the data
\* channel cancels it, and a restart is called for a timer only when that
\* timer was pending in the state that armed it.
C28_RestartOnTimeoutOrFailure ==
    [][\A p \in Peers :
          /\ (iceConnectionState'[p] = "failed" /\ iceConnectionState[p] # "failed")
                => restartCall'[p] = "failed"
          /\ TimerFires(p) => restartCall'[p] = iceTimeoutId[p]
          /\ iceConnectionState'[p] # iceConnectionState[p]
                => iceTimeoutId'[p] =
                      IF iceConnectionState'[p] \in {"checking", "disconnected"}
                      THEN iceConnectionState'[p] ELSE "none"
          /\ (dataChannel'[p] = "open" /\ dataChannel[p] # "open")
                => iceTimeoutId'[p] = "none"
          /\ (RestartInvoked(p) /\ restartCall'[p] # "failed")
                => /\ iceTimeoutId[p] = restartCall'[p]
                   /\ iceConnectionState[p] = restartCall'[p]]_vars

C28_Witness ==
    /\ restartCall[Local] \in {"checking", "disconnected"}
    /\ iceConnectionState[Local] = restartCall[Local]
    /\ iceTimeoutId[Local] = "none"

\* C29: a step that calls restartIce(), for a timeout or for a reported
\* failure, leaves the session, its signaling state and descriptions, the
\* data channel and the candidate buffer as they are; the session and the
\* channel are discarded by close() only.
C29_RestartKeepsSession ==
    [][\A p \in Peers :
          /\ RestartInvoked(p)
                => UNCHANGED <<peerConnection, dataChannel, iceCandidateBuffer,
                               signalingState, remoteDescription, rtcTasks>>
          /\ (peerConnection[p] = "live" /\ peerConnection'[p] = "null") => Close(p)
          /\ (dataChannel[p] # "none" /\ dataChannel'[p] = "none") => Close(p)]_vars

C29_Witness ==
    /\ restartCall[Local] # "none"
    /\ peerConnection[Local] = "live"
    /\ dataChannel[Local] = "open"
    /\ Len(iceCandidateBuffer[Local]) > 0

\* a step in which the callback handles a malformed record for p
MalformedHandled(p) == lastCall'[p] # lastCall[p] /\ lastCall'[p].form = "bad"

\* C30: a malformed offer, answer or candidate is dropped: the session, the
\* signaling state and the candidate buffer stay as they are, nothing is
\* thrown to the caller (the app's catch does not run) and the connection
\* status does not become 'failed'.
C30_MalformedInputDropped ==
    [][\A p \in Peers :
          MalformedHandled(p)
             => /\ UNCHANGED <<peerConnection, signalingState, remoteDescription,
                               iceCandidateBuffer, statusTimers>>
                /\ connectionStatus'[p] = "failed" => connectionStatus[p] = "failed"]_vars

\* ===================================================================
\* SpecRetry: one page joins, its callback is handed offers, answers and
\* candidates, well-formed or not, the suspended calls resume, and every
\* 5 s timer of the callback's catch fires eventually
\* ===================================================================
NextRetry ==
    \/ \E init \in BOOLEAN : JoinRoom(Local, init)
    \/ \E t \in rtcTasks : OfferLocalSet(t)
    \/ \E k \in {"offer", "answer", "candidate"}, f \in Forms : CallbackInvoked(Local, k, f)
    \/ \E t \in rtcTasks, rb \in BOOLEAN : RemoteOfferSettled(t, rb)
    \/ \E t \in rtcTasks : LocalAnswerSet(t)
    \/ \E t \in rtcTasks : RemoteAnswerSettled(t)
    \/ \E t \in rtcTasks : DrainNext(t)
    \/ StatusReset(Local)

SpecRetry == InitRtc /\ [][NextRetry]_vars /\ WF_vars(StatusReset(Local))

\* a step in which the callback is handed a record of this kind for p
CallbackHandles(p, kind) == lastCall'[p] # lastCall[p] /\ lastCall'[p].kind = kind

\* C31: when the handling of an offer or an answer throws, the status
\* becomes 'failed' and a timer is armed that resets it to 'ready' (after
\* 5 s); every 'failed' shown is eventually followed by 'ready'; the
\* handling of a candidate changes neither the status nor the timers.
C31_FailedThenReady ==
    /\ [][\A p \in Peers :
            /\ (CallbackHandles(p, "offer") \/ CallbackHandles(p, "answer"))
                 => (lastCall'[p].outcome = "invalid"
                        => /\ connectionStatus'[p] = "failed"
                           /\ statusTimers'[p] = statusTimers[p] + 1)
            /\ statusTimers'[p] > statusTimers[p] => connectionStatus'[p] = "failed"
            /\ (connectionStatus'[p] = "failed" /\ connectionStatus[p] # "failed")
                 => statusTimers'[p] = statusTimers[p] + 1
            /\ CallbackHandles(p, "candidate")
                 => UNCHANGED <<connectionStatus, statusTimers>>]_vars
    /\ \A p \in Peers : connectionStatus[p] = "failed" ~> connectionStatus[p] = "ready"

C31_Witness ==
    /\ connectionStatus[Local] = "ready"
    /\ lastCall[Local].outcome = "invalid"
    /\ lastCall[Local].kind \in {"offer", "answer"}
    /\ statusTimers[Local] = 0

\* ===================================================================
\* SpecInactive: two pages join one room and send heartbeats; a heartbeat
\* of the page Local may start the inactivity check, whose reads may fail;
\* the other page stores a record and the clock may run on by a liveness
\* window.
\* ===================================================================
NextInactive ==
    \/ \E j \in Peers : RoomExistsRead(j, TRUE)
    \/ \E j \in Peers : AppActiveRead(j, TRUE)
    \/ \E j \in Peers : JoinCheckRead(j, TRUE)
    \/ \E j \in Peers : RoomUpdate(j, TRUE)
    \/ \E j \in Peers : UpdateActivity(j)
    \/ WindowPasses
    \/ MemberStores(Other(Local))
    \/ TenthHeartbeat(Local)
    \/ \E ok \in BOOLEAN : InactivityCheckRead(Local, ok)
    \/ GraceElapsed(Local)
    \/ \E ok \in BOOLEAN : InactivityRecheckRead(Local, ok)
    \/ \E acc \in BOOLEAN : InactivityCleanup(Local, acc)

SpecInactive == InitRtc /\ [][NextInactive]_vars

\* C32: the re-check made when the grace timer fires starts the room
\* cleanup only when no participant of the room is active at that read: a
\* room with an active participant at the re-check is not deleted by the
\* inactivity check.
C32_TeardownOnlyWhenInactive ==
    [][\A j \in Joiners :
          (inactivity[j] = "recheck" /\ inactivity'[j] = "cleanMessages")
             => ActiveCount(participants, now) = 0]_vars

\* ===================================================================
\* SpecPipeline: the responder's receive paths with a payload the room key
\* does not decrypt among the initiator's messages: it is in the mailbox
\* when the offline load runs, or the listener or the channel delivers it.
\* The load runs once the initiator's sends have settled.
\* ===================================================================
NextPipeline ==
    \/ SendMessage(Initiator) /\ ChatOnly
    \/ \E t \in tasks, ok \in BOOLEAN : SendEncrypted(t, ok) /\ ChatOnly
    \/ \E t \in tasks, acc \in BOOLEAN : SendStored(t, acc) /\ ChatOnly
    \/ \E path \in {"store", "channel"} : ForeignChat(Other(Initiator), path) /\ ChatOnly
    \/ \E id \in MsgIds \cup {ForeignId} : ListenerDeliver(Other(Initiator), id) /\ ChatOnly
    \/ AllSettled /\ LoadOfflineMessages(Other(Initiator)) /\ ChatOnly
    \/ LoadSnapshot(Other(Initiator)) /\ ChatOnly
    \/ LoadNext(Other(Initiator)) /\ ChatOnly
    \/ \E t \in tasks : HimFinish(t) /\ ChatOnly
    \/ ChannelReceive(Other(Initiator)) /\ ChatOnly
    \/ \E p \in Peers : DataChannelOpen(p)

SpecPipeline == InitMsg /\ [][NextPipeline]_vars

\* nothing is in flight towards p and none of its handlers is suspended
Quiescent(p) ==
    /\ chan[p] = <<>>
    /\ \A t \in tasks : t.p # p
    /\ loadQ[p].stage \in {"idle", "done"}

\* C33: a handleIncomingMessage call that fails changes nothing of what the
\* later messages depend on, and the messages after it are still surfaced:
\* the offline load goes on with the rest of its batch, so that once it is
\* done every stored message has been surfaced, and every message sent
\* over the channel has been surfaced once the channel and the handlers
\* are idle.
C33_FailureBlocksNoLaterMessage ==
    /\ [][\A t \in tasks :
            (t.op = "him" /\ t \notin tasks' /\ ~Decrypts(t.msg))
               => /\ UNCHANGED <<deliveredMessages, processedSignals, chan,
                                 mailbox, ui, dataChannel>>
                  /\ t.par = "load"
                       => LET rest == LoadRest(deliveredMessages, t.p, loadQ[t.p].queue) IN
                          IF rest = <<>> THEN loadQ'[t.p].stage = "done"
                          ELSE Task(t.p, "him", Head(rest), "firebase", "load") \in tasks']_vars
    /\ [](LET y == Other(Initiator) IN
          Quiescent(y) =>
             \A id \in MsgIds :
                /\ sendLog[id].direct = "sent" => ui[y][id] >= 1
                /\ (loadQ[y].stage = "done" /\ sendLog[id].store = "ok")
                      => ui[y][id] >= 1)

\* C33 witness: the load is done with the undecryptable record still in the
\* mailbox, and a message that neither the listener nor the channel
\* delivered has been surfaced
C33_Witness ==
    LET y == Other(Initiator) IN
    /\ Quiescent(y)
    /\ loadQ[y].stage = "done"
    /\ HasRecord(ForeignId)
    /\ ForeignId \notin processedSignals[y]
    /\ \E id \in MsgIds :
          /\ ui[y][id] = 1
          /\ id \notin processedSignals[y]
          /\ sendLog[id].direct = "skipped"

\* C34: every id in the secret dedup set has its 60 s removal timer pending,
\* or its handleWebRTCSecret call is still running and will arm it: no id
\* stays in the set for good, whether the decryption succeeded or failed.
C34_SecretIdsExpire ==
    \A p \in Peers : \A id \in secretMessageIds[p] :
        \/ id \in secretTimers[p]
        \/ \E t \in tasks : t.op = "secret" /\ t.p = p /\ t.msg.id = id

\* the fields of a mailbox record: the key, the ciphertext (with its IV) and
\* the metadata
StoredFields == {"id", "type", "data", "timestamp", "sender", "ttl"}

\* C35: every record in the chat mailbox holds the ciphertext and the
\* metadata (timestamp, sender, ttl) and nothing else; its data is never
\* the plaintext handed to sendMessage.
C35_StoredRecordsAreCiphertext ==
    \A r \in mailbox :
        /\ DOMAIN r = StoredFields
        /\ r.data # Plaintext
        /\ r.type = "stored"

C35_Witness ==
    \E r \in mailbox :
        /\ r.data = EncryptMessage(Plaintext)
        /\ sendLog[r.id].store = "ok"
        /\ r.sender = sendLog[r.id].sender

\* C36: after leaveRoom has completed and until the next joinRoom (the
\* session id is forgotten and stays so), no handshake or chat record of
\* the store is forwarded to the participant's callbacks, no session is
\* created for it, and it writes no record to the store.
C36_NothingAfterLeave ==
    [][\A p \in Peers :
          (sessionId[p] = NoPeer /\ sessionId'[p] = NoPeer)
             => /\ forwards'[p] = forwards[p]
                /\ peerConnection'[p] = "null"
                /\ \A r \in signals' \ signals : r.sender # NoPeer
                /\ \A t \in tasks' \ tasks : t.p # p]_vars

\* ===================================================================
\* SpecRejoin: a page that joined a room and left it joins again. The
\* listeners of the first join are still attached (leaveRoom detaches only
\* the rooms/{roomId} reference) while the second joinRoom waits for
\* crypto.initialize, the room reads and signaling.joinRoom, and the other
\* participant's records reach the app's callback in between.
\* ===================================================================

\* the page after joinRoom and leaveRoom: listeners attached, everything
\* else as after construction (close() has run once); sessions counts the
\* sessions created from here on
InitRejoin ==
    /\ now = 0
    /\ mailbox = {}
    /\ chan = [p \in Peers |-> <<>>]
    /\ isWebRTCConnected = [p \in Peers |-> FALSE]
    /\ deliveredMessages = [p \in Peers |-> {}]
    /\ processedSignals = [p \in Peers |-> {}]
    /\ secretMessageIds = [p \in Peers |-> {}]
    /\ secretTimers = [p \in Peers |-> {}]
    /\ tasks = {}
    /\ loadQ = [p \in Peers |-> [stage |-> "idle", queue |-> <<>>]]
    /\ nextMsg = 0
    /\ nextSecret = 0
    /\ sendLog = [i \in MsgIds |-> NoLog]
    /\ secretLog = {}
    /\ ui = [p \in Peers |-> [i \in AllIds |-> 0]]
    /\ uiErr = [p \in Peers |-> {}]
    /\ statusTimers = [p \in Peers |-> 0]
    /\ lastCall = [p \in Peers |-> NoCall]
    /\ nextInput = 0
    /\ sessionLog = [p \in Peers |-> <<>>]
    /\ iceCandidateBuffer = [p \in Peers |-> <<>>]
    /\ remoteDescription = [p \in Peers |-> NoDesc]
    /\ rtcTasks = {}
    /\ iceConnectionState = [p \in Peers |-> "new"]
    /\ iceTimeoutId = [p \in Peers |-> "none"]
    /\ localStream = [p \in Peers |-> "null"]
    /\ closeLog = [p \in Peers |-> IF p = Local THEN "some" ELSE "none"]
    /\ restartCall = [p \in Peers |-> "none"]
    /\ dataChannel = [p \in Peers |-> "none"]
    /\ peerConnection = [p \in Peers |-> "null"]
    /\ signalingState = [p \in Peers |-> "closed"]
    /\ connectionStatus = [p \in Peers |-> "ready"]
    /\ sessions = 0
    /\ signals = {}
    /\ sessionId = [p \in Peers |-> NoPeer]
    /\ listening = [p \in Peers |-> p = Local]
    /\ deliveries = 0
    /\ forwards = [p \in Peers |-> [k \in RecordKeys |-> 0]]
    /\ roomExists = FALSE
    /\ participants = [j \in Joiners |-> NoParticipant]
    /\ roomTask = [j \in Joiners |-> "idle"]
    /\ inactivity = [j \in Joiners |-> "none"]

\* joinRoom of the app up to its first await: 'connecting' is shown and
\* ensureCleanState, the page not being in a room, only clears the
\* processed ids; the session is left as it is
JoinStarts(p) ==
    /\ roomTask[p] = "idle"
    /\ sessionId[p] = NoPeer
    /\ roomTask' = [roomTask EXCEPT ![p] = "joining"]
    /\ processedSignals' = [processedSignals EXCEPT ![p] = {}]
    /\ connectionStatus' = [connectionStatus EXCEPT ![p] = "connecting"]
    /\ UNCHANGED <<now, mailbox, chan, dataChannel, isWebRTCConnected,
                   deliveredMessages, secretMessageIds, secretTimers, tasks,
                   loadQ, nextMsg, nextSecret, sendLog, secretLog, ui, uiErr>>
    /\ UNCHANGED <<peerConnection, signalingState, remoteDescription,
                   iceCandidateBuffer, sessionLog, rtcTasks, statusTimers,
                   lastCall, nextInput, sessions>>
    /\ UNCHANGED <<signals, sessionId, listening, deliveries, forwards,
                   roomExists, participants, inactivity, iceVars>>

\* joinRoom resumes after signaling.joinRoom: the session id is set, the
\* listeners are attached, the managers are made and createPeerConnection
\* assigns a new session to this.peerConnection whatever it held; the
\* initiator goes on into createOffer. Taken once the callback's handling
\* of an offer, if one came, has run to its end.
JoinResumes(p, isInitiator) ==
    /\ roomTask[p] = "joining"
    /\ \A t \in rtcTasks : t.peer # p
    /\ roomTask' = [roomTask EXCEPT ![p] = "in_room"]
    /\ NewPeerConnection(p)
    /\ sessionId' = [sessionId EXCEPT ![p] = p]
    /\ listening' = [listening EXCEPT ![p] = TRUE]
    /\ deliveredMessages' = [deliveredMessages EXCEPT ![p] = {}]
    /\ secretMessageIds' = [secretMessageIds EXCEPT ![p] = {}]
    /\ sessionLog' = [sessionLog EXCEPT ![p] = <<>>]
    /\ IF isInitiator
       THEN /\ dataChannel' = [dataChannel EXCEPT ![p] = "connecting"]
            /\ rtcTasks' = rtcTasks \cup {RtcTask(p, "createOffer", 0)}
            /\ connectionStatus' = [connectionStatus EXCEPT ![p] = "connecting"]
       ELSE /\ connectionStatus' = [connectionStatus EXCEPT ![p] = "in_room"]
            /\ UNCHANGED <<dataChannel, rtcTasks>>
    /\ UNCHANGED <<now, mailbox, chan, secretTimers, tasks, loadQ, nextMsg,
                   nextSecret, sendLog, secretLog, ui, uiErr, isWebRTCConnected,
                   processedSignals>>
    /\ UNCHANGED <<iceCandidateBuffer, statusTimers, lastCall, nextInput, signals,
                   deliveries, forwards, roomExists, participants, inactivity,
                   iceVars>>

NextRejoin ==
    \/ JoinStarts(Local)
    \/ \E init \in BOOLEAN : JoinResumes(Local, init)
    \/ \E k \in {"offer", "answer", "candidate"}, f \in Forms : CallbackInvoked(Local, k, f)
    \/ \E t \in rtcTasks, rb \in BOOLEAN : RemoteOfferSettled(t, rb)
    \/ \E t \in rtcTasks : LocalAnswerSet(t)
    \/ \E t \in rtcTasks : OfferLocalSet(t)
    \/ \E t \in rtcTasks : RemoteAnswerSettled(t)
    \/ \E t \in rtcTasks : DrainNext(t)
    \/ StatusReset(Local)

SpecRejoin == InitRejoin /\ [][NextRejoin]_vars

\* a local or remote description has been applied to p's session
DescriptionApplied(p) ==
    /\ peerConnection[p] = "live"
    /\ \/ remoteDescription[p] # NoDesc
       \/ signalingState[p] \in {"have-local-offer", "have-remote-offer"}

\* C37: between a join and the matching close() a session to which a
\* description has been applied is never replaced: no step of joinRoom or
\* of the offer handling assigns a new session over it.
C37_SessionNeverReplaced ==
    [][\A p \in Peers : DescriptionApplied(p) => sessions' = sessions]_vars

\* ===================================================================
\* SpecTakeover: a stale room. The page of another participant wrote
\* handshake records and was abandoned (closed or timed out: its records
\* stay, nothing calls cleanupStaleSignalingData); the local page then finds
\* the room without an active participant, joins as initiator, and its
\* listeners receive child-added events for the records that are there.
\* ===================================================================

\* the abandoned session's page writes a record, before the takeover
AbandonedWrites(kind) ==
    /\ ~listening[Local]
    /\ sessionId[Local] = NoPeer
    /\ RemoteWrites(Local, kind)

\* the app's joinRoom with roomExists and !activeCheck.hasActive
Takeover ==
    /\ signals # {}
    /\ JoinRoom(Local, TRUE)

NextTakeover ==
    \/ \E kind \in {"offer", "answer", "candidate"} : AbandonedWrites(kind)
    \/ Takeover
    \/ \E t \in rtcTasks : OfferLocalSet(t)
    \/ \E r \in signals : SignalDelivered(Local, r)
    \/ \E t \in rtcTasks, rb \in BOOLEAN : RemoteOfferSettled(t, rb)
    \/ \E t \in rtcTasks : LocalAnswerSet(t)
    \/ \E t \in rtcTasks : RemoteAnswerSettled(t)
    \/ \E t \in rtcTasks : DrainNext(t)
    \/ StatusReset(Local)

SpecTakeover == InitRtc /\ [][NextTakeover]_vars

\* C38: after a stale-room takeover no offer, answer or candidate that the
\* abandoned session left in the store is forwarded to the new initiator's
\* callback, and none is applied to its session.
C38_StaleRecordsNotForwarded ==
    \A r \in signals :
        r.sender = Other(Local)
           => /\ forwards[Local][r.key] = 0
              /\ remoteDescription[Local] = NoDesc

\* ===================================================================
\* SpecLeaving: the pages of a room join, store records and send
\* heartbeats; the page Local leaves (as the last active participant it
\* removes the room's records) while its heartbeat callers still run.
\* ===================================================================
NextLeaving ==
    \/ \E j \in Peers : RoomExistsRead(j, TRUE)
    \/ \E j \in Peers : AppActiveRead(j, TRUE)
    \/ \E j \in Peers : JoinCheckRead(j, TRUE)
    \/ \E j \in Peers : RoomUpdate(j, TRUE)
    \/ \E j \in Peers : UpdateActivity(j)
    \/ WindowPasses
    \/ MemberStores(Local)
    \/ MemberSignals(Local)
    \/ LeaveMarked(Local)
    \/ LeaveCheckRead(Local, TRUE)
    \/ \E acc \in BOOLEAN : CleanMessages(Local, acc)
    \/ \E acc \in BOOLEAN : CleanSignaling(Local, acc)
    \/ \E acc \in BOOLEAN : CleanRoom(Local, acc)
    \/ LateHeartbeat(Local)
    \/ HeartbeatLands(Local)

SpecLeaving == InitRtc /\ [][NextLeaving]_vars

\* C39: once the leave of the last active participant has removed the
\* room's records, no write of that participant re-creates a record under
\* the room's membership, handshake or chat paths while it stays out of the
\* room.
C39_NothingRecreatedAfterCleanup ==
    [][\A j \in Peers :
          (~roomExists /\ roomTask[j] = "idle" /\ roomTask'[j] = "idle")
             => /\ ~participants'[j].present
                /\ \A r \in signals' \ signals : r.sender # j
                /\ \A m \in mailbox' \ mailbox : m.sender # j]_vars

\* ===================================================================
\* SpecJoinMail: records are in the chat mailbox when a participant joins.
\* One participant stores its messages (and a record the room key does not
\* decrypt may lie in the mailbox); the other then has its listener
\* attached and its handler registered, and runs loadOfflineMessages if it
\* is the responder. The initiator has the listener only. The store fires
\* the listener's events and settles the reads, and the handlers run on.
\* ===================================================================
\* the messages of the other participant are stored (or their store was
\* refused) and p joins
Joined(p) == AllSettled /\ \A id \in MsgIds : sendLog[id].sender = Other(p)

NextJoinMail ==
    \/ \E s \in Peers : SendMessage(s) /\ ChatOnly
    \/ \E t \in tasks : SendEncrypted(t, TRUE) /\ ChatOnly
    \/ \E t \in tasks, acc \in BOOLEAN : SendStored(t, acc) /\ ChatOnly
    \/ \E p \in Peers : ~AllSettled /\ ForeignChat(p, "store") /\ ChatOnly
    \/ \E p \in Peers, id \in MsgIds \cup {ForeignId} :
          Joined(p) /\ ListenerDeliver(p, id) /\ ChatOnly
    \/ \E p \in Peers : Joined(p) /\ LoadOfflineMessages(p) /\ ChatOnly
    \/ \E p \in Peers : LoadSnapshot(p) /\ ChatOnly
    \/ \E p \in Peers : LoadNext(p) /\ ChatOnly
    \/ \E t \in tasks : HimFinish(t) /\ ChatOnly

SpecJoinMail == InitMsg /\ [][NextJoinMail]_vars /\ WF_vars(NextJoinMail)

\* the UI callback has been called for the message, with its text or with
\* the placeholder of a failed decryption
Surfaced(p, id) ==
    \/ id \in uiErr[p]
    \/ id \in AllIds /\ ui[p][id] >= 1

\* C40: every unexpired record of another sender that is in the mailbox
\* when a participant joins, as responder or as initiator, is eventually
\* surfaced to that participant.
C40_MailboxSurfacedAfterJoin ==
    \A p \in Peers : \A id \in MsgIds \cup {ForeignId} :
        (/\ Joined(p)
         /\ HasRecord(id)
         /\ RecordOf(id).sender # p
         /\ ~(RecordOf(id).ttl < now))
            ~> Surfaced(p, id)

============================================================================
